---- MODULE Spec2Model ----
(***************************************************************************)
(* A model of the AutoRequire extension (Roblox Super Require): the        *)
(* PathResolver that turns a file-system path into a Roblox instance path  *)
(* (sourcemap.json, default.project.json, folder convention) and the       *)
(* require-path builder of the completion provider.                        *)
(*                                                                         *)
(* A JavaScript string is a sequence of one-character strings, so that     *)
(* startsWith, split, replace and the regular expressions of the source    *)
(* are computed character by character.  The platform is POSIX             *)
(* (path.sep = "/").                                                       *)
(***************************************************************************)
EXTENDS Integers, Sequences, FiniteSets, TLC

---------------------------------------------------------------------------
(* Characters and the string built-ins the source uses *)

UpperChars == <<"A", "B", "C", "D", "E", "F", "G", "H", "I", "J", "K", "L", "M", "N", "O", "P", "Q", "R", "S", "T", "U", "V", "W", "X", "Y", "Z">>

LowerChars == <<"a", "b", "c", "d", "e", "f", "g", "h", "i", "j", "k", "l", "m", "n", "o", "p", "q", "r", "s", "t", "u", "v", "w", "x", "y", "z">>

DigitChars == {"0", "1", "2", "3", "4", "5", "6", "7", "8", "9"}

LetterChars == {UpperChars[i] : i \in DOMAIN UpperChars} \cup {LowerChars[i] : i \in DOMAIN LowerChars}

\* String.prototype.toLowerCase, one character
ToLowerChar(c) ==
  IF \E i \in DOMAIN UpperChars : UpperChars[i] = c
  THEN LowerChars[CHOOSE i \in DOMAIN UpperChars : UpperChars[i] = c]
  ELSE c

\* String.prototype.toLowerCase
ToLowerCase(s) == [i \in 1..Len(s) |-> ToLowerChar(s[i])]

\* String.prototype.startsWith
StartsWith(s, t) == Len(t) <= Len(s) /\ SubSeq(s, 1, Len(t)) = t

\* a regular expression anchored by $ on a literal suffix
EndsWith(s, t) == Len(t) <= Len(s) /\ SubSeq(s, Len(s) - Len(t) + 1, Len(s)) = t

\* String.prototype.substring(n)
Substring(s, n) == SubSeq(s, n + 1, Len(s))

\* String.prototype.includes(c), c one character
Includes(s, c) == \E i \in 1..Len(s) : s[i] = c

\* index of the first occurrence of character c in s, 0 when there is none
IndexOfChar(s, c) == IF Includes(s, c) THEN CHOOSE i \in 1..Len(s) : s[i] = c /\ \A j \in 1..(i - 1) : s[j] # c ELSE 0

RECURSIVE Split(_, _)
\* String.prototype.split(c), c one character
Split(s, c) ==
  IF ~Includes(s, c) THEN <<s>>
  ELSE <<SubSeq(s, 1, IndexOfChar(s, c) - 1)>> \o Split(Substring(s, IndexOfChar(s, c)), c)

RECURSIVE Concat(_)
\* Array.prototype.join('')
Concat(parts) == IF parts = <<>> THEN <<>> ELSE Head(parts) \o Concat(Tail(parts))

RECURSIVE Join(_, _)
\* Array.prototype.join(c)
Join(parts, c) ==
  IF parts = <<>> THEN <<>>
  ELSE IF Len(parts) = 1 THEN parts[1]
  ELSE parts[1] \o <<c>> \o Join(Tail(parts), c)

\* s without its last n characters
DropLast(s, n) == SubSeq(s, 1, Len(s) - n)

RECURSIVE StripSuffixCI(_, _)
\* s.replace(/(suffix1|suffix2|...)$/i, ''): the first suffix of the list that s
\* ends with, compared case-insensitively, is removed
StripSuffixCI(s, suffixes) ==
  IF suffixes = <<>> THEN s
  ELSE IF EndsWith(ToLowerCase(s), Head(suffixes)) THEN DropLast(s, Len(Head(suffixes)))
  ELSE StripSuffixCI(s, Tail(suffixes))

---------------------------------------------------------------------------
(* The path module of Node.js, POSIX flavour *)

Slash == "/"

DotDot == <<".", ".">>

RECURSIVE NormalizeParts(_, _)
\* path.normalize on the segments of an absolute path: "" and "." are dropped,
\* ".." removes the segment before it
NormalizeParts(parts, acc) ==
  IF parts = <<>> THEN acc
  ELSE IF Head(parts) = <<>> \/ Head(parts) = <<".">> THEN NormalizeParts(Tail(parts), acc)
  ELSE IF Head(parts) = DotDot
       THEN NormalizeParts(Tail(parts), IF acc = <<>> THEN acc ELSE DropLast(acc, 1))
  ELSE NormalizeParts(Tail(parts), Append(acc, Head(parts)))

\* path.join(a, b) for an absolute a
PathJoin(a, b) == <<Slash>> \o Join(NormalizeParts(Split(a \o <<Slash>> \o b, Slash), <<>>), Slash)

\* path.basename(p)
Basename(p) == LET parts == Split(p, Slash) IN parts[Len(parts)]

RECURSIVE CommonPrefixLen(_, _)
CommonPrefixLen(a, b) ==
  IF a = <<>> \/ b = <<>> \/ Head(a) # Head(b) THEN 0
  ELSE 1 + CommonPrefixLen(Tail(a), Tail(b))

\* path.relative(from, to) for absolute paths
PathRelative(from, to) ==
  LET f == NormalizeParts(Split(from, Slash), <<>>)
      t == NormalizeParts(Split(to, Slash), <<>>)
      c == CommonPrefixLen(f, t)
  IN Join([i \in 1..(Len(f) - c) |-> DotDot] \o SubSeq(t, c + 1, Len(t)), Slash)

---------------------------------------------------------------------------
(* pathResolver: formatting of a logical path *)

Game == <<"g", "a", "m", "e">>

\* /^[a-zA-Z_][a-zA-Z0-9_]*$/.test(name)
IsValidLuaIdentifier(name) ==
  /\ Len(name) > 0
  /\ name[1] \in LetterChars \cup {"_"}
  /\ \A i \in 2..Len(name) : name[i] \in LetterChars \cup DigitChars \cup {"_"}

\* .replace(/\\/g, '\\\\').replace(/"/g, '\\"'), one character
EscapeChar(c) ==
  IF c = "\\" THEN <<"\\", "\\">>
  ELSE IF c = "\"" THEN <<"\\", "\"">>
  ELSE <<c>>

FormatPathSegment(segment) ==
  IF IsValidLuaIdentifier(segment) THEN <<".">> \o segment
  ELSE <<"[", "\"">> \o Concat([i \in 1..Len(segment) |-> EscapeChar(segment[i])]) \o <<"\"", "]">>

\* segments.map(formatPathSegment).join('')
FormatSegments(segments) == Concat([i \in 1..Len(segments) |-> FormatPathSegment(segments[i])])

BuildLuaPath(prefix, segments) == prefix \o FormatSegments(segments)

---------------------------------------------------------------------------
(* pathResolver: the outcome of one resolution tier *)

\* the tier's search raised an exception
Throw == [kind |-> "throw", segs |-> <<>>]

\* the tier's search returned null
NullResult == [kind |-> "null", segs |-> <<>>]

\* the tier's search returned a segments array
Segs(s) == [kind |-> "segs", segs |-> s]

---------------------------------------------------------------------------
(* pathResolver: the workspace and the loaded snapshots *)

\* folder.uri.fsPath of the one workspace folder
WS == <<"/", "w">>

WorkspaceFolders == <<WS>>

\* this.workspaceFolders.find(folder => fsPath.startsWith(folder.uri.fsPath))
FindWorkspaceFolder(fsPath) ==
  IF \E i \in DOMAIN WorkspaceFolders : StartsWith(fsPath, WorkspaceFolders[i])
  THEN [found |-> TRUE,
        path |-> WorkspaceFolders[CHOOSE i \in DOMAIN WorkspaceFolders :
                    /\ StartsWith(fsPath, WorkspaceFolders[i])
                    /\ \A j \in 1..(i - 1) : ~StartsWith(fsPath, WorkspaceFolders[j])]]
  ELSE [found |-> FALSE, path |-> <<>>]

\* Map.get of a folder that has no entry: undefined
NotLoaded == [kind |-> "notloaded"]

DotLuau == <<".", "l", "u", "a", "u">>

DotLua == <<".", "l", "u", "a">>

InitName == <<"i", "n", "i", "t">>

\* the suffixes /\.(server|client)?\.luau$/i matches: a dot, an optional role, a
\* second dot and luau
RoleLuauSuffixes == <<<<".", "s", "e", "r", "v", "e", "r", ".", "l", "u", "a", "u">>,
                      <<".", "c", "l", "i", "e", "n", "t", ".", "l", "u", "a", "u">>,
                      <<".", ".", "l", "u", "a", "u">>>>

\* the suffixes /\.(server|client)?\.(luau|lua)$/i matches
RoleSourceSuffixes == RoleLuauSuffixes \o
                      <<<<".", "s", "e", "r", "v", "e", "r", ".", "l", "u", "a">>,
                        <<".", "c", "l", "i", "e", "n", "t", ".", "l", "u", "a">>,
                        <<".", ".", "l", "u", "a">>>>

\* the suffixes /\.(luau|lua)$/i matches
SourceSuffixes == <<DotLuau, DotLua>>

---------------------------------------------------------------------------
(* pathResolver: tier 1, sourcemap.json *)

RECURSIVE SearchSourcemapNodeAsSegments(_, _, _, _)
SearchSourcemapNodeAsSegments(nodes, targetPath, workspacePath, pathSegments) ==
  IF nodes = <<>> THEN NullResult
  ELSE LET node == Head(nodes) IN
       IF node.kind = "null" THEN Throw   \* node.name of a JSON null: TypeError
       ELSE LET currentPath == Append(pathSegments, node.name)
                hit == \E i \in 1..Len(node.filePaths) :
                          StripSuffixCI(PathJoin(workspacePath, node.filePaths[i]), <<DotLuau>>)
                            = StripSuffixCI(targetPath, <<DotLuau>>)
                sub == SearchSourcemapNodeAsSegments(node.children, targetPath, workspacePath, currentPath)
            IN IF hit THEN Segs(currentPath)
               ELSE IF sub.kind # "null" THEN sub
               ELSE SearchSourcemapNodeAsSegments(Tail(nodes), targetPath, workspacePath, pathSegments)

ResolveFromSourcemapAsSegments(sourcemap, fsPath) ==
  LET workspaceFolder == FindWorkspaceFolder(fsPath) IN
  IF ~workspaceFolder.found THEN NullResult
  ELSE IF sourcemap.kind = "notloaded" THEN NullResult
  ELSE IF ~sourcemap.hasChildren THEN NullResult
  ELSE SearchSourcemapNodeAsSegments(sourcemap.children, fsPath, workspaceFolder.path, <<>>)

---------------------------------------------------------------------------
(* pathResolver: tier 2, default.project.json *)

RECURSIVE ProcessPathSegments(_)
ProcessPathSegments(segments) ==
  IF segments = <<>> THEN <<>>
  ELSE LET segment == StripSuffixCI(Head(segments), RoleLuauSuffixes) IN
       IF ToLowerCase(segment) = InitName THEN ProcessPathSegments(Tail(segments))
       ELSE <<segment>> \o ProcessPathSegments(Tail(segments))

\* .replace(/\\/g, '/')
ReplaceBackslashes(s) == [i \in 1..Len(s) |-> IF s[i] = "\\" THEN Slash ELSE s[i]]

RECURSIVE SearchRojoTreeAsSegments(_, _, _, _)
RECURSIVE SearchRojoChildren(_, _, _, _)

SearchRojoTreeAsSegments(node, targetRelativePath, workspacePath, pathSegments) ==
  IF node.path.kind = "nonstring" THEN Throw   \* node.$path.replace is not a function
  ELSE LET nodePath == ReplaceBackslashes(node.path.value) IN
       IF /\ node.path.kind = "string"
          /\ node.path.value # <<>>
          /\ \/ StartsWith(targetRelativePath, nodePath \o <<Slash>>)
             \/ targetRelativePath = nodePath
       THEN LET remainingPath == IF targetRelativePath = nodePath THEN <<>>
                                 ELSE Substring(targetRelativePath, Len(nodePath) + 1)
                segments == IF remainingPath # <<>> THEN Split(remainingPath, Slash) ELSE <<>>
            IN Segs(pathSegments \o ProcessPathSegments(segments))
       ELSE SearchRojoChildren(node.children, targetRelativePath, workspacePath, pathSegments)

\* for (const key of Object.keys(node)), the keys in insertion order
SearchRojoChildren(children, targetRelativePath, workspacePath, pathSegments) ==
  IF children = <<>> THEN NullResult
  ELSE LET child == Head(children)
           rest == SearchRojoChildren(Tail(children), targetRelativePath, workspacePath, pathSegments)
       IN IF StartsWith(child.key, <<"$">>) \/ ~child.isObject THEN rest
          ELSE LET result == SearchRojoTreeAsSegments(child.node, targetRelativePath, workspacePath,
                                                      Append(pathSegments, child.key))
               IN IF result.kind # "null" THEN result ELSE rest

ResolveFromRojoProjectAsSegments(project, fsPath) ==
  LET workspaceFolder == FindWorkspaceFolder(fsPath) IN
  IF ~workspaceFolder.found THEN NullResult
  ELSE IF project.kind = "notloaded" THEN NullResult
  ELSE IF ~project.hasTree THEN NullResult
  ELSE SearchRojoTreeAsSegments(project.tree,
                                PathRelative(workspaceFolder.path, ReplaceBackslashes(fsPath)),
                                workspaceFolder.path, <<>>)

---------------------------------------------------------------------------
(* pathResolver: tier 3, the folder convention *)

\* the serviceMap literal
ServiceMap == <<
  [key |-> <<"s", "r", "c">>, value |-> <<"R", "e", "p", "l", "i", "c", "a", "t", "e", "d", "S", "t", "o", "r", "a", "g", "e">>],
  [key |-> <<"s", "e", "r", "v", "e", "r">>, value |-> <<"S", "e", "r", "v", "e", "r", "S", "c", "r", "i", "p", "t", "S", "e", "r", "v", "i", "c", "e">>],
  [key |-> <<"c", "l", "i", "e", "n", "t">>, value |-> <<"S", "t", "a", "r", "t", "e", "r", "P", "l", "a", "y", "e", "r", ".", "S", "t", "a", "r", "t", "e", "r", "P", "l", "a", "y", "e", "r", "S", "c", "r", "i", "p", "t", "s">>],
  [key |-> <<"s", "h", "a", "r", "e", "d">>, value |-> <<"R", "e", "p", "l", "i", "c", "a", "t", "e", "d", "S", "t", "o", "r", "a", "g", "e">>],
  [key |-> <<"r", "e", "p", "l", "i", "c", "a", "t", "e", "d">>, value |-> <<"R", "e", "p", "l", "i", "c", "a", "t", "e", "d", "S", "t", "o", "r", "a", "g", "e">>],
  [key |-> <<"r", "e", "p", "l", "i", "c", "a", "t", "e", "d", "s", "t", "o", "r", "a", "g", "e">>, value |-> <<"R", "e", "p", "l", "i", "c", "a", "t", "e", "d", "S", "t", "o", "r", "a", "g", "e">>],
  [key |-> <<"s", "e", "r", "v", "e", "r", "s", "c", "r", "i", "p", "t", "s", "e", "r", "v", "i", "c", "e">>, value |-> <<"S", "e", "r", "v", "e", "r", "S", "c", "r", "i", "p", "t", "S", "e", "r", "v", "i", "c", "e">>],
  [key |-> <<"s", "e", "r", "v", "e", "r", "s", "t", "o", "r", "a", "g", "e">>, value |-> <<"S", "e", "r", "v", "e", "r", "S", "t", "o", "r", "a", "g", "e">>],
  [key |-> <<"s", "t", "a", "r", "t", "e", "r", "p", "l", "a", "y", "e", "r">>, value |-> <<"S", "t", "a", "r", "t", "e", "r", "P", "l", "a", "y", "e", "r">>],
  [key |-> <<"s", "t", "a", "r", "t", "e", "r", "g", "u", "i">>, value |-> <<"S", "t", "a", "r", "t", "e", "r", "G", "u", "i">>],
  [key |-> <<"l", "i", "g", "h", "t", "i", "n", "g">>, value |-> <<"L", "i", "g", "h", "t", "i", "n", "g">>],
  [key |-> <<"w", "o", "r", "k", "s", "p", "a", "c", "e">>, value |-> <<"W", "o", "r", "k", "s", "p", "a", "c", "e">>] >>

\* the all-lower-case property names a plain object literal inherits from
\* Object.prototype: serviceMap[key] is then a function or an object, not a string
InheritedKeys == {<<"c", "o", "n", "s", "t", "r", "u", "c", "t", "o", "r">>,
                  <<"_", "_", "p", "r", "o", "t", "o", "_", "_">>}

\* serviceMap[firstSegment]
ServiceMapLookup(key) ==
  IF \E i \in DOMAIN ServiceMap : ServiceMap[i].key = key
  THEN [kind |-> "service", value |-> ServiceMap[CHOOSE i \in DOMAIN ServiceMap : ServiceMap[i].key = key].value]
  ELSE IF key \in InheritedKeys THEN [kind |-> "inherited", value |-> <<>>]
  ELSE [kind |-> "undefined", value |-> <<>>]

GetFileNameWithoutExtension(fsPath) == StripSuffixCI(Basename(fsPath), SourceSuffixes)

RECURSIVE ConventionSegments(_)
\* the loop over the segments of the relative path
ConventionSegments(segments) ==
  IF segments = <<>> THEN <<>>
  ELSE LET segment == StripSuffixCI(StripSuffixCI(Head(segments), RoleSourceSuffixes), SourceSuffixes) IN
       IF ToLowerCase(segment) = InitName THEN ConventionSegments(Tail(segments))
       ELSE <<segment>> \o ConventionSegments(Tail(segments))

ResolveFromConventionAsSegments(fsPath) ==
  LET workspaceFolder == FindWorkspaceFolder(fsPath) IN
  IF ~workspaceFolder.found THEN Segs(<<GetFileNameWithoutExtension(fsPath)>>)
  ELSE LET processedSegments == ConventionSegments(Split(PathRelative(workspaceFolder.path, fsPath), Slash)) IN
       IF Len(processedSegments) > 0
       THEN LET mappedService == ServiceMapLookup(ToLowerCase(processedSegments[1])) IN
            IF mappedService.kind = "inherited" THEN Throw   \* mappedService.includes is not a function
            ELSE IF mappedService.kind = "service"
                 THEN IF Includes(mappedService.value, ".")
                      THEN Segs(Split(mappedService.value, ".") \o Tail(processedSegments))
                      ELSE Segs(<<mappedService.value>> \o Tail(processedSegments))
            ELSE Segs(processedSegments)
       ELSE Segs(<<GetFileNameWithoutExtension(fsPath)>>)

---------------------------------------------------------------------------
(* pathResolver: resolveInstancePath without its cache *)

\* a faulty catch block that returns the root token alone; C5 rejects it
SafePathRootOnly(fsPath) == Game

\* the catch block: the bare file name
SafePath(fsPath) == Game \o FormatPathSegment(StripSuffixCI(Basename(fsPath), RoleLuauSuffixes))

\* a faulty try block that asks the project tree before the sourcemap; C2
\* rejects it
ComputeInstancePathRojoFirst(sourcemap, project, fsPath) ==
  LET sourcemapSegments == ResolveFromSourcemapAsSegments(sourcemap, fsPath)
      rojoSegments == ResolveFromRojoProjectAsSegments(project, fsPath)
      conventionSegments == ResolveFromConventionAsSegments(fsPath)
  IN IF rojoSegments.kind = "throw" THEN Game \o FormatPathSegment(Basename(fsPath))
     ELSE IF rojoSegments.kind = "segs" /\ Len(rojoSegments.segs) > 0
          THEN Game \o FormatSegments(rojoSegments.segs)
     ELSE IF sourcemapSegments.kind = "throw" THEN Game \o FormatPathSegment(Basename(fsPath))
     ELSE IF sourcemapSegments.kind = "segs" /\ Len(sourcemapSegments.segs) > 0
          THEN Game \o FormatSegments(sourcemapSegments.segs)
     ELSE IF conventionSegments.kind = "throw" THEN Game \o FormatPathSegment(Basename(fsPath))
     ELSE Game \o FormatSegments(conventionSegments.segs)

\* the body of the try block, the three tiers in order
ComputeInstancePath(sourcemap, project, fsPath) ==
  LET sourcemapSegments == ResolveFromSourcemapAsSegments(sourcemap, fsPath)
      rojoSegments == ResolveFromRojoProjectAsSegments(project, fsPath)
      conventionSegments == ResolveFromConventionAsSegments(fsPath)
  IN IF sourcemapSegments.kind = "throw" THEN SafePath(fsPath)
     ELSE IF sourcemapSegments.kind = "segs" /\ Len(sourcemapSegments.segs) > 0
          THEN Game \o FormatSegments(sourcemapSegments.segs)
     ELSE IF rojoSegments.kind = "throw" THEN SafePath(fsPath)
     ELSE IF rojoSegments.kind = "segs" /\ Len(rojoSegments.segs) > 0
          THEN Game \o FormatSegments(rojoSegments.segs)
     ELSE IF conventionSegments.kind = "throw" THEN SafePath(fsPath)
     ELSE Game \o FormatSegments(conventionSegments.segs)

---------------------------------------------------------------------------
(* completionProvider: the declarations of a document *)

\* the characters \w matches
WordChars == LetterChars \cup DigitChars \cup {"_"}

\* a value that is null or undefined, and one that is not
Null == [isNull |-> TRUE, value |-> <<>>]

Some(v) == [isNull |-> FALSE, value |-> v]

\* the line: local varName = game:GetService("serviceName")
GetServiceDeclaration(varName, serviceName) ==
  [form |-> "getservice", varName |-> varName, serviceName |-> serviceName,
   baseVarName |-> <<>>, rest |-> <<>>]

\* the line: local varName = baseVarName<rest>, rest running to the end of the line
ReferenceDeclaration(varName, baseVarName, rest) ==
  [form |-> "reference", varName |-> varName, serviceName |-> <<>>,
   baseVarName |-> baseVarName, rest |-> rest]

RECURSIVE WordRunEnd(_, _)
\* \w+ from index i: the index of the last character of the run, i - 1 when the
\* run is empty
WordRunEnd(s, i) ==
  IF i <= Len(s) /\ s[i] \in WordChars THEN WordRunEnd(s, i + 1) ELSE i - 1

RECURSIVE RunEndOutside(_, _, _)
\* [^...]+ from index i: the index of the last character of the run of
\* characters outside the set stop, i - 1 when the run is empty
RunEndOutside(s, i, stop) ==
  IF i <= Len(s) /\ s[i] \notin stop THEN RunEndOutside(s, i + 1, stop) ELSE i - 1

\* the end of one accessor \.\w+ or \["[^"]+"\] that starts at index i, 0 when
\* none starts there
AccessorEnd(s, i) ==
  IF i > Len(s) THEN 0
  ELSE IF s[i] = "." THEN (IF WordRunEnd(s, i + 1) > i THEN WordRunEnd(s, i + 1) ELSE 0)
  ELSE IF s[i] = "[" /\ i + 1 <= Len(s) /\ s[i + 1] = "\""
       THEN LET e == RunEndOutside(s, i + 2, {"\""}) IN
            IF e >= i + 2 /\ e + 2 <= Len(s) /\ s[e + 1] = "\"" /\ s[e + 2] = "]" THEN e + 2 ELSE 0
  ELSE 0

RECURSIVE AccessorsEnd(_, _)
\* (?:\.\w+|\["[^"]+"\])+ from index i, greedy: the index of the last character
\* matched, i - 1 when no accessor starts at i
AccessorsEnd(s, i) ==
  IF AccessorEnd(s, i) = 0 THEN i - 1 ELSE AccessorsEnd(s, AccessorEnd(s, i) + 1)

\* getServicePattern matches the line
MatchesGetService(declaration) == declaration.form = "getservice"

\* dotAccessPattern matches the line: game, a dot and one word up to the end of
\* the line
MatchesDotAccess(declaration) ==
  /\ declaration.form = "reference"
  /\ declaration.baseVarName = Game
  /\ Len(declaration.rest) >= 2
  /\ declaration.rest[1] = "."
  /\ WordRunEnd(declaration.rest, 2) = Len(declaration.rest)

\* match[2] of dotAccessPattern
DotAccessServiceName(declaration) == Tail(declaration.rest)

\* match[3] of varRefPattern, the empty string when the pattern does not match
\* the line
PathPart(declaration) ==
  IF declaration.form = "reference"
  THEN SubSeq(declaration.rest, 1, AccessorsEnd(declaration.rest, 1))
  ELSE <<>>

RECURSIVE DotMatches(_, _)
\* pathPart.matchAll(/\.(\w+)/g) from index i: the words dm[1] in order
DotMatches(s, i) ==
  IF i > Len(s) THEN <<>>
  ELSE IF s[i] = "." /\ WordRunEnd(s, i + 1) > i
       THEN <<SubSeq(s, i + 1, WordRunEnd(s, i + 1))>> \o DotMatches(s, WordRunEnd(s, i + 1) + 1)
  ELSE DotMatches(s, i + 1)

RECURSIVE BracketMatches(_, _)
\* pathPart.matchAll(/\[["']([^"']+)["']\]/g) from index i: the strings bm[1] in
\* order
BracketMatches(s, i) ==
  IF i > Len(s) THEN <<>>
  ELSE LET e == RunEndOutside(s, i + 2, {"\"", "'"}) IN
       IF /\ s[i] = "["
          /\ i + 1 <= Len(s) /\ s[i + 1] \in {"\"", "'"}
          /\ e >= i + 2 /\ e + 2 <= Len(s)
          /\ s[e + 1] \in {"\"", "'"} /\ s[e + 2] = "]"
       THEN <<SubSeq(s, i + 2, e)>> \o BracketMatches(s, e + 3)
       ELSE BracketMatches(s, i + 1)

\* the accessor a bracket match adds
BracketAccessor(name) ==
  IF IsValidLuaIdentifier(name) THEN <<".">> \o name
  ELSE <<"[", "\"">> \o name \o <<"\"", "]">>

\* additionalPath: the dot matches first, the bracket matches after them
AdditionalPath(pathPart) ==
  LET dots == DotMatches(pathPart, 1)
      brackets == BracketMatches(pathPart, 1)
  IN Concat([i \in 1..Len(dots) |-> <<".">> \o dots[i]])
       \o Concat([i \in 1..Len(brackets) |-> BracketAccessor(brackets[i])])

\* instancePath.split(/\.|\[/).length
SplitDepth(instancePath) ==
  1 + Cardinality({i \in 1..Len(instancePath) : instancePath[i] \in {".", "["}})

---------------------------------------------------------------------------
(* completionProvider: extractDefinedServices and extractDefinedVariables *)

\* new Map()
EmptyMap == [k \in {} |-> <<>>]

\* Map.prototype.set
MapSet(map, key, value) ==
  [k \in DOMAIN map \cup {key} |-> IF k = key THEN value ELSE map[k]]

\* /^[A-Z]/.test(name)
StartsUpperCase(name) ==
  Len(name) > 0 /\ \E i \in DOMAIN UpperChars : UpperChars[i] = name[1]

\* `game.${serviceName}`
ServicePath(serviceName) == Game \o <<".">> \o serviceName

DefinedVariable(varName, instancePath, depth, lineIndex) ==
  [varName |-> varName, instancePath |-> instancePath, depth |-> depth, lineIndex |-> lineIndex]

\* the maps and the list before the first loop
NoVariables == [serviceVars |-> EmptyMap, variables |-> <<>>]

\* serviceVars.set and variables.push of one binding
PushVariable(acc, varName, instancePath, depth, lineIndex) ==
  [serviceVars |-> MapSet(acc.serviceVars, varName, instancePath),
   variables |-> Append(acc.variables, DefinedVariable(varName, instancePath, depth, lineIndex))]

RECURSIVE GetServiceLoop(_, _, _)
\* the loop over the matches of getServicePattern, from line i
GetServiceLoop(document, i, acc) ==
  IF i > Len(document) THEN acc
  ELSE IF MatchesGetService(document[i])
       THEN GetServiceLoop(document, i + 1,
              PushVariable(acc, document[i].varName, ServicePath(document[i].serviceName), 2, i - 1))
  ELSE GetServiceLoop(document, i + 1, acc)

RECURSIVE DotAccessLoop(_, _, _)
\* the loop over the matches of dotAccessPattern, from line i
DotAccessLoop(document, i, acc) ==
  IF i > Len(document) THEN acc
  ELSE IF /\ MatchesDotAccess(document[i])
          /\ StartsUpperCase(DotAccessServiceName(document[i]))
          /\ document[i].varName \notin DOMAIN acc.serviceVars
       THEN DotAccessLoop(document, i + 1,
              PushVariable(acc, document[i].varName, ServicePath(DotAccessServiceName(document[i])), 2, i - 1))
  ELSE DotAccessLoop(document, i + 1, acc)

RECURSIVE VarRefLoop(_, _, _)
\* the loop over the matches of varRefPattern, from line i
VarRefLoop(document, i, acc) ==
  IF i > Len(document) THEN acc
  ELSE LET pathPart == PathPart(document[i])
           baseVarName == document[i].baseVarName
           additionalPath == AdditionalPath(pathPart)
       IN IF /\ pathPart # <<>>
             /\ baseVarName \in DOMAIN acc.serviceVars
             /\ additionalPath # <<>>
          THEN LET instancePath == acc.serviceVars[baseVarName] \o additionalPath IN
               VarRefLoop(document, i + 1,
                 PushVariable(acc, document[i].varName, instancePath, SplitDepth(instancePath), i - 1))
          ELSE VarRefLoop(document, i + 1, acc)

RECURSIVE InsertByDepth(_, _)
\* places v behind every element that is at least as deep
InsertByDepth(sorted, v) ==
  IF sorted = <<>> THEN <<v>>
  ELSE IF Head(sorted).depth >= v.depth THEN <<Head(sorted)>> \o InsertByDepth(Tail(sorted), v)
  ELSE <<v>> \o sorted

\* a faulty sort that puts the shallowest binding first
SortShallowestFirst(variables) ==
  LET Swap(s) == [i \in 1..Len(s) |-> s[Len(s) + 1 - i]]
      RECURSIVE Sorted(_)
      Sorted(s) == IF s = <<>> THEN <<>> ELSE InsertByDepth(Sorted(SubSeq(s, 1, Len(s) - 1)), s[Len(s)])
  IN Swap(Sorted(variables))

RECURSIVE SortByDepthDescending(_)
\* variables.sort((a, b) => b.depth - a.depth): descending depth, and stable
SortByDepthDescending(variables) ==
  IF variables = <<>> THEN <<>>
  ELSE InsertByDepth(SortByDepthDescending(SubSeq(variables, 1, Len(variables) - 1)),
                     variables[Len(variables)])

ExtractDefinedVariables(document) ==
  SortByDepthDescending(
    VarRefLoop(document, 1,
      DotAccessLoop(document, 1,
        GetServiceLoop(document, 1, NoVariables))).variables)

RECURSIVE ServicesGetServiceLoop(_, _, _)
\* extractDefinedServices: the loop over the matches of getServicePattern
ServicesGetServiceLoop(document, i, services) ==
  IF i > Len(document) THEN services
  ELSE IF MatchesGetService(document[i])
       THEN ServicesGetServiceLoop(document, i + 1,
              MapSet(services, document[i].serviceName, document[i].varName))
  ELSE ServicesGetServiceLoop(document, i + 1, services)

RECURSIVE ServicesDotAccessLoop(_, _, _)
\* extractDefinedServices: the loop over the matches of dotAccessPattern
ServicesDotAccessLoop(document, i, services) ==
  IF i > Len(document) THEN services
  ELSE IF MatchesDotAccess(document[i]) /\ StartsUpperCase(DotAccessServiceName(document[i]))
       THEN ServicesDotAccessLoop(document, i + 1,
              MapSet(services, DotAccessServiceName(document[i]), document[i].varName))
  ELSE ServicesDotAccessLoop(document, i + 1, services)

ExtractDefinedServices(document) ==
  ServicesDotAccessLoop(document, 1, ServicesGetServiceLoop(document, 1, EmptyMap))

---------------------------------------------------------------------------
(* completionProvider: buildRequirePath *)

\* the number of .Parent accessors getRelativePath allows
MaxParents == 3

RECURSIVE CommonLength(_, _, _)
\* the loop that counts the leading parts the two lists share, from index i
CommonLength(currentParts, targetParts, i) ==
  IF i > Len(currentParts) \/ i > Len(targetParts) THEN i - 1
  ELSE IF currentParts[i] = targetParts[i] THEN CommonLength(currentParts, targetParts, i + 1)
  ELSE i - 1

\* a faulty loop that emits one .Parent too few
ScriptParentsOneShort(n) ==
  <<"s", "c", "r", "i", "p", "t">> \o Concat([i \in 1..(IF n > 0 THEN n - 1 ELSE 0) |-> <<".", "P", "a", "r", "e", "n", "t">>])

\* 'script' followed by n times '.Parent'
ScriptParents(n) == <<"s", "c", "r", "i", "p", "t">> \o Concat([i \in 1..n |-> <<".", "P", "a", "r", "e", "n", "t">>])

GetRelativePath(config, currentPath, targetPath) ==
  IF config.pathStyle = "absolute" THEN Null
  ELSE LET currentParts == Split(currentPath, ".")
           targetParts == Split(targetPath, ".")
           commonLength == CommonLength(currentParts, targetParts, 1)
           parentsNeeded == Len(currentParts) - commonLength
           childrenNeeded == SubSeq(targetParts, commonLength + 1, Len(targetParts))
       IN IF currentParts[1] # Game \/ targetParts[1] # Game THEN Null
          ELSE IF commonLength < 2 THEN Null
          ELSE IF parentsNeeded > MaxParents THEN Null
          ELSE Some(ScriptParents(parentsNeeded)
                      \o Concat([i \in 1..Len(childrenNeeded) |-> BracketAccessor(childrenNeeded[i])]))

RECURSIVE FindDeepestMatchingVariable(_, _)
FindDeepestMatchingVariable(instancePath, definedVariables) ==
  IF definedVariables = <<>> THEN Null
  ELSE LET variable == Head(definedVariables)
           remaining == Substring(instancePath, Len(variable.instancePath))
       IN IF /\ StartsWith(ToLowerCase(instancePath), ToLowerCase(variable.instancePath))
             /\ \/ remaining = <<>>
                \/ remaining[1] = "."
                \/ remaining[1] = "["
          THEN Some([varName |-> variable.varName, remainingPath |-> remaining])
          ELSE FindDeepestMatchingVariable(instancePath, Tail(definedVariables))

\* instancePath.match(/^game\.(\w+)(\..*)?$/): match[1] and match[2] || ''
ServiceMatch(instancePath) ==
  LET e == WordRunEnd(instancePath, Len(Game) + 2) IN
  IF /\ StartsWith(instancePath, Game \o <<".">>)
     /\ e >= Len(Game) + 2
     /\ (e = Len(instancePath) \/ instancePath[e + 1] = ".")
  THEN Some([serviceName |-> SubSeq(instancePath, Len(Game) + 2, e),
             rest |-> SubSeq(instancePath, e + 1, Len(instancePath))])
  ELSE Null

\* `game:GetService("${match[1]}")${match[2] || ''}`
GetServiceCall(serviceName, rest) ==
  <<"g", "a", "m", "e", ":", "G", "e", "t", "S", "e", "r", "v", "i", "c", "e", "(", "\"">> \o serviceName \o <<"\"", ")">> \o rest

BuildRequirePath(instancePath, definedServices, definedVariables, currentScriptPath, config) ==
  LET deepMatch == FindDeepestMatchingVariable(instancePath, definedVariables)
      tryRelative == /\ ~currentScriptPath.isNull
                     /\ currentScriptPath.value # <<>>
                     /\ config.pathStyle # "absolute"
      relativePath == GetRelativePath(config, currentScriptPath.value, instancePath)
      match == ServiceMatch(instancePath)
  IN IF ~deepMatch.isNull THEN deepMatch.value.varName \o deepMatch.value.remainingPath
     ELSE IF tryRelative /\ ~relativePath.isNull THEN relativePath.value
     ELSE IF ~match.isNull /\ match.value.serviceName \in DOMAIN definedServices
          THEN definedServices[match.value.serviceName] \o match.value.rest
     ELSE IF config.useGetService /\ ~match.isNull
          THEN GetServiceCall(match.value.serviceName, match.value.rest)
     ELSE instancePath

---------------------------------------------------------------------------
(* The files of the workspace whose paths are resolved *)

\* /w/src/shared/Packages/Janitor.luau
JanitorShared == <<"/", "w", "/", "s", "r", "c", "/", "s", "h", "a", "r", "e", "d", "/", "P", "a", "c", "k", "a", "g", "e", "s", "/", "J", "a", "n", "i", "t", "o", "r", ".", "l", "u", "a", "u">>

\* /w/src/shared/Utils/init.luau
UtilsInit == <<"/", "w", "/", "s", "r", "c", "/", "s", "h", "a", "r", "e", "d", "/", "U", "t", "i", "l", "s", "/", "i", "n", "i", "t", ".", "l", "u", "a", "u">>

\* /w/src/shared/init.server.luau
SharedInitServer == <<"/", "w", "/", "s", "r", "c", "/", "s", "h", "a", "r", "e", "d", "/", "i", "n", "i", "t", ".", "s", "e", "r", "v", "e", "r", ".", "l", "u", "a", "u">>

\* /w/constructor/Foo.luau
ConstructorFoo == <<"/", "w", "/", "c", "o", "n", "s", "t", "r", "u", "c", "t", "o", "r", "/", "F", "o", "o", ".", "l", "u", "a", "u">>

\* /w/init.luau
RootInit == <<"/", "w", "/", "i", "n", "i", "t", ".", "l", "u", "a", "u">>

\* /x/Foo.luau, outside the workspace folder
OutsideFoo == <<"/", "x", "/", "F", "o", "o", ".", "l", "u", "a", "u">>

Paths == {JanitorShared, UtilsInit, SharedInitServer, ConstructorFoo, RootInit, OutsideFoo}

---------------------------------------------------------------------------
(* The contents sourcemap.json can have on disk *)

\* a SourcemapNode
SNode(name, filePaths, children) ==
  [kind |-> "node", name |-> name, filePaths |-> filePaths, children |-> children]

\* a JSON null where a SourcemapNode is expected
SNull == [kind |-> "null", name |-> <<>>, filePaths |-> <<>>, children |-> <<>>]

SJanitor == SNode(<<"J", "a", "n", "i", "t", "o", "r">>, <<<<"s", "r", "c", "/", "s", "h", "a", "r", "e", "d", "/", "P", "a", "c", "k", "a", "g", "e", "s", "/", "J", "a", "n", "i", "t", "o", "r", ".", "l", "u", "a", "u">>>>, <<>>)

SUtils == SNode(<<"U", "t", "i", "l", "s">>, <<<<"s", "r", "c", "/", "s", "h", "a", "r", "e", "d", "/", "U", "t", "i", "l", "s", "/", "i", "n", "i", "t", ".", "l", "u", "a", "u">>>>, <<>>)

\* game.Workspace.Lib.Janitor and game.Workspace["My Utils"]
SourcemapA ==
  [kind |-> "sourcemap", hasChildren |-> TRUE,
   children |-> << SNode(<<"W", "o", "r", "k", "s", "p", "a", "c", "e">>, <<>>,
                     << SNode(<<"L", "i", "b">>, <<>>, <<SJanitor>>),
                        SNode(<<"M", "y", " ", "U", "t", "i", "l", "s">>, <<<<"s", "r", "c", "/", "s", "h", "a", "r", "e", "d", "/", "U", "t", "i", "l", "s", "/", "i", "n", "i", "t", ".", "l", "u", "a", "u">>>>, <<>>) >>) >>]

\* the Janitor node, then a null child, then the Utils node
SourcemapNullChild ==
  [kind |-> "sourcemap", hasChildren |-> TRUE,
   children |-> << SNode(<<"W", "o", "r", "k", "s", "p", "a", "c", "e">>, <<>>, <<SJanitor>>), SNull, SUtils >>]

\* fs.existsSync is false
Absent == [kind |-> "absent"]

\* JSON.parse throws
Unparsable == [kind |-> "unparsable"]

SourcemapFiles == {Absent, Unparsable, SourcemapA, SourcemapNullChild}

---------------------------------------------------------------------------
(* The contents default.project.json can have on disk *)

NoPath == [kind |-> "none", value |-> <<>>]

StringPath(s) == [kind |-> "string", value |-> s]

\* a $path that is not a string, such as a number
NonStringPath == [kind |-> "nonstring", value |-> <<>>]

\* a RojoTreeNode: its $path and its other keys in order
RNode(path, children) == [path |-> path, children |-> children]

\* a key whose value is an object
Child(key, node) == [key |-> key, isObject |-> TRUE, node |-> node]

\* a key whose value is a string, such as $className
StringChild(key) == [key |-> key, isObject |-> FALSE, node |-> RNode(NoPath, <<>>)]

ClassNameKey == <<"$", "c", "l", "a", "s", "s", "N", "a", "m", "e">>

ReplicatedStorageName == <<"R", "e", "p", "l", "i", "c", "a", "t", "e", "d", "S", "t", "o", "r", "a", "g", "e">>

SrcShared == <<"s", "r", "c", "/", "s", "h", "a", "r", "e", "d">>

\* tree: ReplicatedStorage: Shared: $path src/shared
ProjectA ==
  [kind |-> "project", hasTree |-> TRUE,
   tree |-> RNode(NoPath,
              << StringChild(ClassNameKey),
                 Child(<<"$", "p", "r", "o", "p", "e", "r", "t", "i", "e", "s">>, RNode(NoPath, <<>>)),
                 Child(ReplicatedStorageName,
                       RNode(NoPath, << StringChild(ClassNameKey),
                                        Child(<<"S", "h", "a", "r", "e", "d">>, RNode(StringPath(SrcShared), <<>>)) >>)) >>)]

\* tree: $path src/shared
ProjectRoot ==
  [kind |-> "project", hasTree |-> TRUE, tree |-> RNode(StringPath(SrcShared), <<>>)]

\* tree: ReplicatedStorage: Shared: $path src/shared, then ServerStorage: $path 5
ProjectNonStringPath ==
  [kind |-> "project", hasTree |-> TRUE,
   tree |-> RNode(NoPath,
              << Child(ReplicatedStorageName,
                       RNode(NoPath, << Child(<<"S", "h", "a", "r", "e", "d">>, RNode(StringPath(SrcShared), <<>>)) >>)),
                 Child(<<"S", "e", "r", "v", "e", "r", "S", "t", "o", "r", "a", "g", "e">>, RNode(NonStringPath, <<>>)) >>)]

ProjectFiles == {Absent, Unparsable, ProjectA, ProjectRoot, ProjectNonStringPath}

\* the values a folder's entry of sourcemapCache and rojoProjectCache can have
SourcemapValues == {NotLoaded} \cup (SourcemapFiles \ {Absent, Unparsable})

ProjectValues == {NotLoaded} \cup (ProjectFiles \ {Absent, Unparsable})

\* the try block of the loaders: the entry is set when the file exists and parses
Loadable(content) == content.kind \notin {"absent", "unparsable"}

\* resolveInstancePath on a cache miss, for every snapshot and path of the model
Resolved == [sm \in SourcemapValues, pj \in ProjectValues, p \in Paths |-> ComputeInstancePath(sm, pj, p)]

---------------------------------------------------------------------------
(* The documents completion is requested in and the modules it offers *)

\* local A = game.X
DeclareA == ReferenceDeclaration(<<"A">>, Game, <<".", "X">>)

\* local B = A.Y
DeclareB == ReferenceDeclaration(<<"B">>, <<"A">>, <<".", "Y">>)

\* local V1 = game:GetService("ReplicatedStorage")
DeclareV1 == GetServiceDeclaration(<<"V", "1">>, <<"R", "e", "p", "l", "i", "c", "a", "t", "e", "d", "S", "t", "o", "r", "a", "g", "e">>)

\* local V2 = V1.Shared
DeclareV2 == ReferenceDeclaration(<<"V", "2">>, <<"V", "1">>, <<".", "S", "h", "a", "r", "e", "d">>)

\* local V1 = game.Workspace
DeclareV1Workspace == ReferenceDeclaration(<<"V", "1">>, Game, <<".", "W", "o", "r", "k", "s", "p", "a", "c", "e">>)

\* local U = V2["My Utils"]
DeclareU == ReferenceDeclaration(<<"U">>, <<"V", "2">>, <<"[", "\"", "M", "y", " ", "U", "t", "i", "l", "s", "\"", "]">>)

\* local D = V1["My.Utils"]
DeclareD == ReferenceDeclaration(<<"D">>, <<"V", "1">>, <<"[", "\"", "M", "y", ".", "U", "t", "i", "l", "s", "\"", "]">>)

\* local W = V1["My Utils"].Inner
DeclareW == ReferenceDeclaration(<<"W">>, <<"V", "1">>, <<"[", "\"", "M", "y", " ", "U", "t", "i", "l", "s", "\"", "]", ".", "I", "n", "n", "e", "r">>)

Declarations == {DeclareA, DeclareB, DeclareV1, DeclareV2}

\* the longest document that is built from every choice of declarations
MaxDeclarations == 2

\* the documents: every sequence of at most MaxDeclarations declarations, the
\* chain V1, V2, U in both orders, V1 declared twice, and V1 followed by a
\* chain with a bracket accessor
Documents ==
  UNION {[1..n -> Declarations] : n \in 0..MaxDeclarations}
    \cup {<<DeclareV1, DeclareV2, DeclareU>>, <<DeclareU, DeclareV2, DeclareV1>>,
          <<DeclareV1, DeclareV1Workspace>>,
          <<DeclareV1, DeclareD>>, <<DeclareV1, DeclareW>>}

\* the instance paths of the indexed modules, as resolveInstancePath builds them
ModulePaths ==
  {BuildLuaPath(Game, segments) : segments \in
     {<<<<"X">>, <<"Y">>, <<"Z">>>>,
      <<<<"R", "e", "p", "l", "i", "c", "a", "t", "e", "d", "S", "t", "o", "r", "a", "g", "e">>, <<"S", "h", "a", "r", "e", "d">>, <<"U", "t", "i", "l", "s">>>>,
      <<<<"R", "e", "p", "l", "i", "c", "a", "t", "e", "d", "S", "t", "o", "r", "a", "g", "e">>, <<"M", "y", " ", "U", "t", "i", "l", "s">>>>,
      <<<<"X", "Y">>, <<"Z">>>>,
      <<<<"x">>, <<"y">>, <<"L", "e", "a", "f">>>>,
      <<<<"W", "o", "r", "k", "s", "p", "a", "c", "e">>, <<"F", "o", "o">>>>,
      <<<<"X">>, <<"S", "i", "b", "l", "i", "n", "g">>>>,
      <<<<"R", "e", "p", "l", "i", "c", "a", "t", "e", "d", "S", "t", "o", "r", "a", "g", "e">>, <<"S", "h", "a", "r", "e", "d">>, <<"M", "y", " ", "U", "t", "i", "l", "s">>, <<"I", "n", "n", "e", "r">>>>}}

\* what getCurrentScriptPath can return for the document: null when the
\* document is no indexed module, its instance path otherwise
ScriptPaths ==
  {Null} \cup
  {Some(BuildLuaPath(Game, segments)) : segments \in
     {<<<<"X">>, <<"Y">>, <<"Z">>, <<"C", "u", "r", "r", "e", "n", "t">>>>,
      <<<<"X">>, <<"A">>, <<"B">>, <<"d", " ", "e">>, <<"f", " ", "g">>>>,
      <<<<"X">>, <<"P">>, <<"Q">>, <<"R">>, <<"S">>>>,
      <<<<"L", "i", "g", "h", "t", "i", "n", "g">>, <<"M">>>>}}

\* ExtensionConfig, the fields buildRequirePath reads
Configs == [pathStyle : {"auto", "absolute", "relative"}, useGetService : BOOLEAN]

---------------------------------------------------------------------------
(* fuzzyMatcher.ts.  A score is a double in the source; here it is the exact
   rational <<numerator, denominator>> in lowest terms, so that equal scores
   are equal values.  keyboardAwareDistance counts in half units: its costs
   are 0, 0.5 and 1. *)

Min(a, b) == IF a <= b THEN a ELSE b

Max(a, b) == IF a >= b THEN a ELSE b

RECURSIVE Gcd(_, _)
Gcd(a, b) == IF b = 0 THEN a ELSE Gcd(b, a % b)

\* the number n / d, d positive
Rat(n, d) == LET g == Gcd(IF n < 0 THEN -n ELSE n, d) IN <<n \div g, d \div g>>

RatAdd(a, b) == Rat(a[1] * b[2] + b[1] * a[2], a[2] * b[2])

RatSub(a, b) == Rat(a[1] * b[2] - b[1] * a[2], a[2] * b[2])

RatMul(a, b) == Rat(a[1] * b[1], a[2] * b[2])

RECURSIVE RatLess(_, _)
\* a < b, by the integer parts and then the remainders
RatLess(a, b) ==
  LET qa == a[1] \div a[2]
      qb == b[1] \div b[2]
      ra == a[1] % a[2]
      rb == b[1] % b[2]
  IN IF qa # qb THEN qa < qb
     ELSE IF rb = 0 THEN FALSE
     ELSE IF ra = 0 THEN TRUE
     ELSE RatLess(<<b[2], rb>>, <<a[2], ra>>)

\* a >= b
RatGeq(a, b) == ~RatLess(a, b)

\* Math.max
RatMax(a, b) == IF RatLess(a, b) THEN b ELSE a

\* Math.min
RatMin(a, b) == IF RatLess(b, a) THEN b ELSE a

\* String.prototype.includes(t), t a string
IncludesString(s, t) == \E i \in 0..(Len(s) - Len(t)) : SubSeq(s, i + 1, i + Len(t)) = t

RECURSIVE SubsequenceLoop(_, _, _, _, _, _)
\* the for loop of subsequenceMatch, i and queryIdx counted from 0
SubsequenceLoop(queryLower, targetLower, i, queryIdx, lastMatchPos, gaps) ==
  IF ~(i < Len(targetLower) /\ queryIdx < Len(queryLower))
  THEN [matched |-> queryIdx, gaps |-> gaps]
  ELSE IF targetLower[i + 1] = queryLower[queryIdx + 1]
       THEN SubsequenceLoop(queryLower, targetLower, i + 1, queryIdx + 1, i,
                            IF lastMatchPos # -1 /\ i > lastMatchPos + 1
                            THEN gaps + (i - lastMatchPos - 1) ELSE gaps)
       ELSE SubsequenceLoop(queryLower, targetLower, i + 1, queryIdx, lastMatchPos, gaps)

subsequenceMatch(query, target) ==
  SubsequenceLoop(ToLowerCase(query), ToLowerCase(target), 0, 0, -1, 0)

\* freq.get(c) || 0 after the counting loop over s
Frequency(s, c) == Cardinality({i \in 1..Len(s) : s[i] = c})

RECURSIVE CommonCount(_, _, _)
\* the loop over the entries of freq1
CommonCount(chars, s1, s2) ==
  IF chars = {} THEN 0
  ELSE LET char == CHOOSE c \in chars : TRUE
       IN Min(Frequency(s1, char), Frequency(s2, char)) + CommonCount(chars \ {char}, s1, s2)

characterFrequencySimilarity(str1, str2) ==
  LET s1 == ToLowerCase(str1)
      s2 == ToLowerCase(str2)
      commonCount == CommonCount({s1[i] : i \in 1..Len(s1)}, s1, s2)
      totalChars == Max(Len(s1), Len(s2))
  IN IF totalChars = 0 THEN <<1, 1>> ELSE Rat(commonCount, totalChars)

keyboardProximity ==
  [c \in {LowerChars[i] : i \in DOMAIN LowerChars} |->
     CASE c = "q" -> {"w", "a", "s"}
       [] c = "w" -> {"q", "e", "a", "s", "d"}
       [] c = "e" -> {"w", "r", "s", "d", "f"}
       [] c = "r" -> {"e", "t", "d", "f", "g"}
       [] c = "t" -> {"r", "y", "f", "g", "h"}
       [] c = "y" -> {"t", "u", "g", "h", "j"}
       [] c = "u" -> {"y", "i", "h", "j", "k"}
       [] c = "i" -> {"u", "o", "j", "k", "l"}
       [] c = "o" -> {"i", "p", "k", "l"}
       [] c = "p" -> {"o", "l"}
       [] c = "a" -> {"q", "w", "s", "z", "x"}
       [] c = "s" -> {"q", "w", "e", "a", "d", "z", "x", "c"}
       [] c = "d" -> {"w", "e", "r", "s", "f", "x", "c", "v"}
       [] c = "f" -> {"e", "r", "t", "d", "g", "c", "v", "b"}
       [] c = "g" -> {"r", "t", "y", "f", "h", "v", "b", "n"}
       [] c = "h" -> {"t", "y", "u", "g", "j", "b", "n", "m"}
       [] c = "j" -> {"y", "u", "i", "h", "k", "n", "m"}
       [] c = "k" -> {"u", "i", "o", "j", "l", "m"}
       [] c = "l" -> {"i", "o", "p", "k"}
       [] c = "z" -> {"a", "s", "x"}
       [] c = "x" -> {"a", "s", "d", "z", "c"}
       [] c = "c" -> {"s", "d", "f", "x", "v"}
       [] c = "v" -> {"d", "f", "g", "c", "b"}
       [] c = "b" -> {"f", "g", "h", "v", "n"}
       [] c = "n" -> {"g", "h", "j", "b", "m"}
       [] c = "m" -> {"h", "j", "k", "n"}]

areKeysAdjacent(char1, char2) ==
  LET c1 == ToLowerChar(char1)
      c2 == ToLowerChar(char2)
  IN IF c1 \in DOMAIN keyboardProximity THEN c2 \in keyboardProximity[c1] ELSE FALSE

\* cost, in half units
SubstitutionCost(c1, c2) ==
  IF c1 = c2 THEN 0
  ELSE IF areKeysAdjacent(c1, c2) THEN 1
  ELSE 2

\* F applied to the value of v; a const declaration of the source, the value
\* computed once
Const(v, F(_)) == CHOOSE r \in {F(x) : x \in {v}} : TRUE

\* dp[i][j] of keyboardAwareDistance, row holding dp[i][0..j-1], prev and prev2
\* the rows i-1 and i-2
DistanceCell(str1, str2, i, j, prev, prev2, row) ==
  LET c1 == ToLowerChar(str1[i])
      c2 == ToLowerChar(str2[j])
      cell == Min(Min(prev[j + 1] + 2, row[j] + 2), prev[j] + SubstitutionCost(c1, c2))
  IN IF /\ i > 1
        /\ j > 1
        /\ ToLowerChar(str1[i]) = ToLowerChar(str2[j - 1])
        /\ ToLowerChar(str1[i - 1]) = ToLowerChar(str2[j])
     THEN Min(cell, prev2[j - 1] + 1)
     ELSE cell

RECURSIVE DistanceCells(_, _, _, _, _, _, _)
\* the inner loop of keyboardAwareDistance: row i of dp from column j on
DistanceCells(str1, str2, i, j, prev, prev2, row) ==
  IF j > Len(str2) THEN row
  ELSE Const(Append(row, DistanceCell(str1, str2, i, j, prev, prev2, row)),
             LAMBDA next : DistanceCells(str1, str2, i, j + 1, prev, prev2, next))

RECURSIVE DistanceRows(_, _, _, _, _)
\* the outer loop of keyboardAwareDistance; the last row of dp
DistanceRows(str1, str2, i, prev, prev2) ==
  IF i > Len(str1) THEN prev
  ELSE Const(DistanceCells(str1, str2, i, 1, prev, prev2, <<2 * i>>),
             LAMBDA row : DistanceRows(str1, str2, i + 1, row, prev))

\* twice the weighted edit distance
keyboardAwareDistance(str1, str2) ==
  LET m == Len(str1)
      n == Len(str2)
  IN IF m = 0 THEN 2 * n
     ELSE IF n = 0 THEN 2 * m
     ELSE Const([j \in 1..(n + 1) |-> 2 * (j - 1)],
                LAMBDA row0 : DistanceRows(str1, str2, 1, row0, <<>>))[n + 1]

\* FuzzyMatchOptions with the defaults merged in
defaultOptions ==
  [minScore |-> <<3, 10>>, levenshteinWeight |-> <<2, 5>>, subsequenceWeight |-> <<7, 20>>,
   frequencyWeight |-> <<1, 4>>, prefixBonus |-> <<3, 20>>, allowVeryFuzzy |-> TRUE]

Options(minScore, allowVeryFuzzy) ==
  [defaultOptions EXCEPT !.minScore = minScore, !.allowVeryFuzzy = allowVeryFuzzy]

\* score *= 0.7 + lengthRatio * 0.3, then the clamp to 0..1
LengthScaled(score, queryLower, targetLower) ==
  LET lengthRatio == Rat(Min(Len(queryLower), Len(targetLower)), Max(Len(queryLower), Len(targetLower)))
      scaled == RatMul(score, RatAdd(<<7, 10>>, RatMul(lengthRatio, <<3, 10>>)))
  IN RatMin(<<1, 1>>, RatMax(<<0, 1>>, scaled))

\* the score of fuzzyMatch before the match type is determined
CombinedScore(queryLower, targetLower, subseq, freqScore, opts) ==
  LET keyboardDist == keyboardAwareDistance(queryLower, targetLower)
      maxLen == Max(Len(queryLower), Len(targetLower))
      levenshteinScore == RatSub(<<1, 1>>, Rat(keyboardDist, 2 * maxLen))
      subsequenceScore == Rat(subseq.matched, Len(queryLower))
      gapPenalty == IF subseq.gaps > 0 THEN RatMin(<<3, 10>>, Rat(subseq.gaps, 50)) ELSE <<0, 1>>
      weighted ==
        RatAdd(RatAdd(RatMul(levenshteinScore, opts.levenshteinWeight),
                      RatMul(RatSub(subsequenceScore, gapPenalty), opts.subsequenceWeight)),
               RatMul(freqScore, opts.frequencyWeight))
      bonused == IF queryLower[1] = targetLower[1] THEN RatAdd(weighted, opts.prefixBonus) ELSE weighted
  IN LengthScaled(bonused, queryLower, targetLower)

\* a matcher without the fuzzy tier: what is no subsequence match is no match
ClassifiedWithoutFuzzyTier(score, subsequenceScore, freqScore, opts) ==
  IF RatGeq(subsequenceScore, <<4, 5>>)
  THEN [score |-> score, isMatch |-> TRUE, matchType |-> "subsequence"]
  ELSE [score |-> score, isMatch |-> FALSE, matchType |-> "none"]

\* the match type, the very fuzzy mode and the result of fuzzyMatch
Classified(score, subsequenceScore, freqScore, opts) ==
  LET matchType == IF RatGeq(subsequenceScore, <<4, 5>>) THEN "subsequence"
                   ELSE IF RatGeq(score, opts.minScore) THEN "fuzzy"
                   ELSE "none"
  IN IF opts.allowVeryFuzzy /\ RatGeq(freqScore, <<7, 10>>) /\ RatLess(score, opts.minScore)
     THEN LET salvaged == RatMax(score, RatMul(freqScore, <<1, 2>>))
          IN [score |-> salvaged, isMatch |-> RatGeq(salvaged, opts.minScore), matchType |-> "fuzzy"]
     ELSE [score |-> score, isMatch |-> RatGeq(score, opts.minScore), matchType |-> matchType]

\* fuzzyMatch from the combined scoring on
CombinedMatch(queryLower, targetLower, opts) ==
  Const(subsequenceMatch(queryLower, targetLower), LAMBDA subseq :
    Const(characterFrequencySimilarity(queryLower, targetLower), LAMBDA freqScore :
      Const(CombinedScore(queryLower, targetLower, subseq, freqScore, opts), LAMBDA score :
        Classified(score, Rat(subseq.matched, Len(queryLower)), freqScore, opts))))

\* a matcher that looks for the query inside the target before it looks at the
\* target's start
LiteralSubstringFirst(queryLower, targetLower, opts) ==
  IF Len(queryLower) = 0 THEN [score |-> <<1, 10>>, isMatch |-> TRUE, matchType |-> "fuzzy"]
  ELSE IF queryLower = targetLower THEN [score |-> <<1, 1>>, isMatch |-> TRUE, matchType |-> "exact"]
  ELSE IF IncludesString(targetLower, queryLower)
  THEN [score |-> RatAdd(<<7, 10>>, RatMul(Rat(Len(queryLower), Len(targetLower)), <<1, 5>>)),
        isMatch |-> TRUE, matchType |-> "substring"]
  ELSE CombinedMatch(queryLower, targetLower, opts)

\* fuzzyMatch once query and target are in lower case
LiteralOrCombined(queryLower, targetLower, opts) ==
  IF Len(queryLower) = 0 THEN [score |-> <<1, 10>>, isMatch |-> TRUE, matchType |-> "fuzzy"]
  ELSE IF queryLower = targetLower THEN [score |-> <<1, 1>>, isMatch |-> TRUE, matchType |-> "exact"]
  ELSE IF StartsWith(targetLower, queryLower)
  THEN [score |-> RatAdd(<<9, 10>>, RatMul(Rat(Len(queryLower), Len(targetLower)), <<1, 10>>)),
        isMatch |-> TRUE, matchType |-> "prefix"]
  ELSE IF IncludesString(targetLower, queryLower)
  THEN [score |-> RatAdd(<<7, 10>>, RatMul(Rat(Len(queryLower), Len(targetLower)), <<1, 5>>)),
        isMatch |-> TRUE, matchType |-> "substring"]
  ELSE CombinedMatch(queryLower, targetLower, opts)

fuzzyMatch(query, target, opts) ==
  Const(ToLowerCase(query), LAMBDA queryLower :
    Const(ToLowerCase(target), LAMBDA targetLower :
      LiteralOrCombined(queryLower, targetLower, opts)))

\* getSearchText of the provider: (m) => [m.name, m.relativePath]
getSearchText(item) == item.texts

\* a ranking that scores an item by its first search text only
BestMatchFirstTextOnly(query, textsArray, k, best, options) ==
  IF k > Len(textsArray) THEN best
  ELSE Const(fuzzyMatch(query, textsArray[1], options), LAMBDA result :
         IF RatLess(best.score, result.score)
         THEN [score |-> result.score, matchType |-> result.matchType]
         ELSE best)

RECURSIVE BestMatch(_, _, _, _, _)
\* the loop over textsArray, from text k on
BestMatch(query, textsArray, k, best, options) ==
  IF k > Len(textsArray) THEN best
  ELSE Const(fuzzyMatch(query, textsArray[k], options), LAMBDA result :
         Const(IF RatLess(best.score, result.score)
               THEN [score |-> result.score, matchType |-> result.matchType]
               ELSE best,
               LAMBDA better : BestMatch(query, textsArray, k + 1, better, options)))

\* the body of the loop over items: what item k adds to results
Pushed(query, item, options) ==
  Const(BestMatch(query, getSearchText(item), 1, [score |-> <<0, 1>>, matchType |-> "none"], options),
        LAMBDA best :
          IF best.matchType # "none"
          THEN <<[item |-> item, score |-> best.score, matchType |-> best.matchType]>>
          ELSE <<>>)

RECURSIVE RankLoop(_, _, _, _)
\* the loop over items, from item k on: results before the sort
RankLoop(query, items, k, options) ==
  IF k > Len(items) THEN <<>>
  ELSE Pushed(query, items[k], options) \o RankLoop(query, items, k + 1, options)

\* a sort that is not stable: r goes in front of the elements of its score
InsertBeforeEqualScores(sorted, r) ==
  LET k == Cardinality({i \in 1..Len(sorted) : RatLess(r.score, sorted[i].score)})
  IN SubSeq(sorted, 1, k) \o <<r>> \o SubSeq(sorted, k + 1, Len(sorted))

\* where a stable sort by b.score - a.score puts r among the sorted elements
\* that came before it: behind every element that does not score lower
InsertByScore(sorted, r) ==
  LET k == Cardinality({i \in 1..Len(sorted) : RatGeq(sorted[i].score, r.score)})
  IN SubSeq(sorted, 1, k) \o <<r>> \o SubSeq(sorted, k + 1, Len(sorted))

RECURSIVE SortByScoreDescending(_)
\* results.sort((a, b) => b.score - a.score)
SortByScoreDescending(results) ==
  IF results = <<>> THEN <<>>
  ELSE Const(SortByScoreDescending(SubSeq(results, 1, Len(results) - 1)),
             LAMBDA sorted : InsertByScore(sorted, results[Len(results)]))

rankMatches(query, items, options) ==
  Const(RankLoop(query, items, 1, options), LAMBDA results : SortByScoreDescending(results))

\* the keys the generated queries and targets are typed with: a and s are
\* adjacent in keyboardProximity, p is adjacent to neither
Alphabet == {"a", "s", "p"}

\* the longest generated query or target
MaxLen == 3

Strings == UNION {[1..n -> Alphabet] : n \in 1..MaxLen}

\* what is typed after require( : nothing, every generated string, the
\* README's examples and two scrambled names
Queries == {<<>>} \cup Strings \cup {<<"r", "p", "o", "m", "p", "t", "c", "l", "a", "s", "s">>, <<"J", "a", "n", "i", "t", "o", "r">>, <<"A", "S">>, <<"m", "t", "a", "b">>, <<"m", "t", "a", "p">>}

\* module names, Janitoe being one neighbouring key away from the query Janitor
Targets == Strings \cup {<<"P", "r", "o", "m", "p", "t", "C", "l", "a", "s", "s">>, <<"j", "a", "n", "i", "t", "o", "r">>, <<"a", "S", "p">>, <<"a", "p", "m", "t">>, <<"J", "a", "n", "i", "t", "o", "e">>}

\* minScore: the default, and the values findMatches passes for the loose,
\* normal and strict strengths
MinScores == {<<3, 10>>, <<1, 5>>, <<7, 20>>, <<1, 2>>}

OptionSets == {Options(minScore, allowVeryFuzzy) : minScore \in MinScores, allowVeryFuzzy \in BOOLEAN}

\* ModuleInfo, the fields getSearchText reads
ModuleInfo(name, relativePath) == [name |-> name, texts |-> <<name, relativePath>>]

Candidates ==
  {ModuleInfo(<<"a", "s", "p">>, <<"s", "r", "c", "/", "a", "s", "p">>),
   ModuleInfo(<<"A", "s", "p">>, <<"l", "i", "b", "/", "A", "s", "p">>),
   ModuleInfo(<<"a", "p", "s">>, <<"s", "r", "c", "/", "a", "p", "s">>),
   ModuleInfo(<<"i", "n", "i", "t">>, <<"a", "s", "p", "/", "i", "n", "i", "t">>),
   ModuleInfo(<<"z", "z", "z">>, <<"q">>)}

\* the longest list of modules that is ranked
MaxItems == 3

\* allModules: the lists of at most MaxItems different modules
ItemLists ==
  {items \in UNION {[1..n -> Candidates] : n \in 0..MaxItems} :
     \A i, j \in DOMAIN items : i # j => items[i] # items[j]}

RankQueries == {<<"a", "s", "p">>, <<"a", "s">>, <<"s", "p">>, <<"s", "p", "a">>, <<"a">>}

---------------------------------------------------------------------------
(* The state of a PathResolver, of a RequireCompletionProvider, of the matcher
   and of the activated extension *)

VARIABLES
  sourcemapCache,           \* the workspace folder's entry of sourcemapCache
  rojoProjectCache,         \* the workspace folder's entry of rojoProjectCache
  fileToInstancePathCache,  \* a function from the cached paths to their instance paths
  initialized,
  initPc,                   \* where the one call of initialize() stands
  lastCall,                 \* the resolveInstancePath call that just returned
  document,                 \* the declarations of the document completion is requested in
  currentScriptPath,        \* what getCurrentScriptPath returns for the document
  config,                   \* this.config of the provider
  lastRequest,              \* the completion item that was just built
  matchQuery,               \* the query fuzzyMatch or rankMatches is called with
  matchTarget,              \* the target fuzzyMatch is called with
  matchOptions,             \* the options of the call, the defaults merged in
  matchResult,              \* what fuzzyMatch returned
  rankItems,                \* the items rankMatches is called with
  ranked,                   \* what rankMatches returned
  diskFiles,                \* the files that exist
  diskSourcemap,            \* the content of sourcemap.json
  diskProject,              \* the content of default.project.json
  modules,                  \* this.modules of the current ModuleIndexer
  indexing,                 \* this.indexing of the current ModuleIndexer
  rebuilds,                 \* the executions of its rebuildIndex body that are in progress
  watching,                 \* setupFileWatcher has run for it
  isReinitializing,
  reinitPc,                 \* where the handler of onDidChangeWorkspaceFolders stands
  newResolver,              \* the PathResolver that handler is initializing
  events,                   \* the watcher events that are raised and not yet handled, oldest first
  changes,                  \* how many changes, commands and folder changes there were
  earlyReturns,             \* how many calls of rebuildIndex returned at its guard
  heldIndexer,              \* this.moduleIndexer of the completion provider, once it is disposed
  served                    \* which modules searchModules read in the completion request that just ran

resolverVars == <<sourcemapCache, rojoProjectCache, fileToInstancePathCache, initialized, initPc, lastCall>>

providerVars == <<document, currentScriptPath, config, lastRequest>>

matcherVars == <<matchQuery, matchTarget, matchOptions, matchResult, rankItems, ranked>>

indexerVars == <<diskFiles, diskSourcemap, diskProject, modules, indexing, rebuilds, watching,
                 isReinitializing, reinitPc, newResolver, events, changes, earlyReturns,
                 heldIndexer, served>>

vars == <<resolverVars, providerVars, matcherVars, indexerVars>>

EmptyCache == [p \in {} |-> <<>>]

NoCall == [called |-> FALSE, path |-> <<>>, result |-> <<>>, hit |-> FALSE]

NoRequest == [called |-> FALSE, instancePath |-> <<>>, definedServices |-> EmptyMap,
              definedVariables |-> <<>>, requirePath |-> <<>>]

NoMatchResult == [called |-> FALSE, result |-> <<>>]

NoRanking == [called |-> FALSE, results |-> <<>>]

\* nothing is typed yet
InitNoQuery ==
  /\ matchQuery = <<>>
  /\ matchTarget = <<>>
  /\ matchOptions = defaultOptions
  /\ matchResult = NoMatchResult
  /\ rankItems = <<>>
  /\ ranked = NoRanking

\* the contents sourcemap.json and default.project.json take on disk
DiskSourcemaps == {Absent, SourcemapA}

DiskProjects == {Absent, ProjectA}

\* the disk changes, commands and workspace folder changes of one behaviour
MaxChanges == 2

\* a PathResolver that has loaded nothing
NewResolver == [sourcemap |-> NotLoaded, project |-> NotLoaded]

\* an execution of the body of rebuildIndex that stands at its first await;
\* initial: it was called by initialize()
Activation(initial) == [pc |-> "luau", luauFiles |-> {}, initial |-> initial]

\* no extension is activated
\* the completion provider holds the ModuleIndexer the extension holds
NotDisposed ==
  [disposed |-> FALSE, modules |-> <<>>, rebuilds |-> <<>>, sourcemap |-> NotLoaded,
   project |-> NotLoaded, cache |-> EmptyCache]

\* no completion request has run
NotServed == [called |-> FALSE, afterFolderChange |-> FALSE, fromDisposed |-> FALSE,
              fromCurrentModules |-> FALSE]

InitNoIndexer ==
  /\ diskFiles = {}
  /\ diskSourcemap = Absent
  /\ diskProject = Absent
  /\ modules = <<>>
  /\ indexing = FALSE
  /\ rebuilds = <<>>
  /\ watching = FALSE
  /\ isReinitializing = FALSE
  /\ reinitPc = "idle"
  /\ newResolver = NewResolver
  /\ events = <<>>
  /\ changes = 0
  /\ earlyReturns = 0
  /\ heldIndexer = NotDisposed
  /\ served = NotServed

\* new PathResolver(workspaceFolders)
InitResolver ==
  /\ sourcemapCache = NotLoaded
  /\ rojoProjectCache = NotLoaded
  /\ fileToInstancePathCache = EmptyCache
  /\ initialized = FALSE
  /\ initPc = "idle"
  /\ lastCall = NoCall

\* a provider that no document is open in
InitNoDocument ==
  /\ document = <<>>
  /\ currentScriptPath = Null
  /\ config = [pathStyle |-> "auto", useGetService |-> FALSE]
  /\ lastRequest = NoRequest

Init == InitResolver /\ InitNoDocument /\ InitNoQuery /\ InitNoIndexer

\* initialize() up to its first await
InitializeBegin ==
  /\ initPc = "idle"
  /\ IF initialized THEN initPc' = initPc ELSE initPc' = "sourcemaps"
  /\ lastCall' = NoCall
  /\ UNCHANGED <<sourcemapCache, rojoProjectCache, fileToInstancePathCache, initialized, providerVars, matcherVars, indexerVars>>

\* await this.loadSourcemapsAsync() returns, having read content from disk
InitializeLoadSourcemaps(content) ==
  /\ initPc = "sourcemaps"
  /\ sourcemapCache' = IF Loadable(content) THEN content ELSE sourcemapCache
  /\ initPc' = "projects"
  /\ lastCall' = NoCall
  /\ UNCHANGED <<rojoProjectCache, fileToInstancePathCache, initialized, providerVars, matcherVars, indexerVars>>

\* await this.loadRojoProjectsAsync() returns, and initialize() ends
InitializeLoadRojoProjects(content) ==
  /\ initPc = "projects"
  /\ rojoProjectCache' = IF Loadable(content) THEN content ELSE rojoProjectCache
  /\ initialized' = TRUE
  /\ initPc' = "idle"
  /\ lastCall' = NoCall
  /\ UNCHANGED <<sourcemapCache, fileToInstancePathCache, providerVars, matcherVars, indexerVars>>

ReloadSourcemaps(content) ==
  /\ sourcemapCache' = IF Loadable(content) THEN content ELSE NotLoaded
  /\ fileToInstancePathCache' = EmptyCache
  /\ lastCall' = NoCall
  /\ UNCHANGED <<rojoProjectCache, initialized, initPc, providerVars, matcherVars, indexerVars>>

ReloadRojoProjects(content) ==
  /\ rojoProjectCache' = IF Loadable(content) THEN content ELSE NotLoaded
  /\ fileToInstancePathCache' = EmptyCache
  /\ lastCall' = NoCall
  /\ UNCHANGED <<sourcemapCache, initialized, initPc, providerVars, matcherVars, indexerVars>>

ClearCache ==
  /\ fileToInstancePathCache' = EmptyCache
  /\ lastCall' = NoCall
  /\ UNCHANGED <<sourcemapCache, rojoProjectCache, initialized, initPc, providerVars, matcherVars, indexerVars>>

\* a faulty set that stores the value under every key of the map; C1 rejects it
CacheSetEveryKey(cache, fsPath, value) ==
  [q \in DOMAIN cache \cup {fsPath} |-> value]

\* this.fileToInstancePathCache.set(fsPath, value)
CacheSet(cache, fsPath, value) ==
  [q \in DOMAIN cache \cup {fsPath} |-> IF q = fsPath THEN value ELSE cache[q]]

ResolveInstancePath(fsPath) ==
  /\ IF fsPath \in DOMAIN fileToInstancePathCache
     THEN /\ lastCall' = [called |-> TRUE, path |-> fsPath,
                          result |-> fileToInstancePathCache[fsPath], hit |-> TRUE]
          /\ UNCHANGED fileToInstancePathCache
     ELSE LET fullPath == Resolved[sourcemapCache, rojoProjectCache, fsPath] IN
          /\ fileToInstancePathCache' = CacheSet(fileToInstancePathCache, fsPath, fullPath)
          /\ lastCall' = [called |-> TRUE, path |-> fsPath, result |-> fullPath, hit |-> FALSE]
  /\ UNCHANGED <<sourcemapCache, rojoProjectCache, initialized, initPc, providerVars, matcherVars, indexerVars>>

Next ==
  \/ InitializeBegin
  \/ \E content \in SourcemapFiles : InitializeLoadSourcemaps(content)
  \/ \E content \in ProjectFiles : InitializeLoadRojoProjects(content)
  \/ \E content \in SourcemapFiles : ReloadSourcemaps(content)
  \/ \E content \in ProjectFiles : ReloadRojoProjects(content)
  \/ ClearCache
  \/ \E fsPath \in Paths : ResolveInstancePath(fsPath)

Spec == Init /\ [][Next]_vars

\* the snapshots are loaded and then held fixed: only resolveInstancePath and
\* clearCache are called
InitFixed ==
  /\ sourcemapCache \in SourcemapValues
  /\ rojoProjectCache \in ProjectValues
  /\ fileToInstancePathCache = EmptyCache
  /\ initialized = TRUE
  /\ initPc = "idle"
  /\ lastCall = NoCall
  /\ InitNoDocument
  /\ InitNoQuery
  /\ InitNoIndexer

NextFixed ==
  \/ ClearCache
  \/ \E fsPath \in Paths : ResolveInstancePath(fsPath)

SpecFixed == InitFixed /\ [][NextFixed]_vars

---------------------------------------------------------------------------
(* The RequireCompletionProvider: completion in one document *)

\* new RequireCompletionProvider(moduleIndexer, config), and the document the
\* editor shows
InitProvider ==
  /\ InitResolver
  /\ document \in Documents
  /\ currentScriptPath \in ScriptPaths
  /\ config \in Configs
  /\ lastRequest = NoRequest
  /\ InitNoQuery
  /\ InitNoIndexer

UpdateConfig(newConfig) ==
  /\ config' = newConfig
  /\ lastRequest' = NoRequest
  /\ UNCHANGED <<document, currentScriptPath, resolverVars, matcherVars, indexerVars>>

\* provideCompletionItems, for the item of one module of the results
ProvideCompletionItems(instancePath) ==
  LET definedServices == ExtractDefinedServices(document)
      definedVariables == ExtractDefinedVariables(document)
  IN /\ lastRequest' =
          [called |-> TRUE, instancePath |-> instancePath,
           definedServices |-> definedServices, definedVariables |-> definedVariables,
           requirePath |-> BuildRequirePath(instancePath, definedServices, definedVariables,
                                            currentScriptPath, config)]
     /\ UNCHANGED <<document, currentScriptPath, config, resolverVars, matcherVars, indexerVars>>

NextProvider ==
  \/ \E newConfig \in Configs : UpdateConfig(newConfig)
  \/ \E instancePath \in ModulePaths : ProvideCompletionItems(instancePath)

SpecProvider == InitProvider /\ [][NextProvider]_vars

---------------------------------------------------------------------------
(* fuzzyMatch and rankMatches, applied to one input *)

InitFuzzy ==
  /\ InitResolver
  /\ InitNoDocument
  /\ InitNoIndexer
  /\ matchQuery \in Queries
  /\ matchTarget \in Targets
  /\ matchOptions \in OptionSets
  /\ matchResult = NoMatchResult
  /\ rankItems = <<>>
  /\ ranked = NoRanking

FuzzyMatch ==
  /\ ~matchResult.called
  /\ matchResult' = [called |-> TRUE, result |-> fuzzyMatch(matchQuery, matchTarget, matchOptions)]
  /\ UNCHANGED <<matchQuery, matchTarget, matchOptions, rankItems, ranked, resolverVars, providerVars, indexerVars>>

NextFuzzy == FuzzyMatch

SpecFuzzy == InitFuzzy /\ [][NextFuzzy]_vars

InitRank ==
  /\ InitResolver
  /\ InitNoDocument
  /\ InitNoIndexer
  /\ matchQuery \in RankQueries
  /\ matchTarget = <<>>
  /\ matchOptions \in OptionSets
  /\ matchResult = NoMatchResult
  /\ rankItems \in ItemLists
  /\ ranked = NoRanking

RankMatches ==
  /\ ~ranked.called
  /\ ranked' = [called |-> TRUE, results |-> rankMatches(matchQuery, rankItems, matchOptions)]
  /\ UNCHANGED <<matchQuery, matchTarget, matchOptions, matchResult, rankItems, resolverVars, providerVars, indexerVars>>

NextRank == RankMatches

SpecRank == InitRank /\ [][NextRank]_vars

---------------------------------------------------------------------------
(* moduleIndexer.ts: the files that are indexed *)

\* /w/node_modules/Lib.luau
NodeModulesLib == <<"/", "w", "/", "n", "o", "d", "e", "_", "m", "o", "d", "u", "l", "e", "s", "/", "L", "i", "b", ".", "l", "u", "a", "u">>

\* /w/src/Main.server.luau
MainServer == <<"/", "w", "/", "s", "r", "c", "/", "M", "a", "i", "n", ".", "s", "e", "r", "v", "e", "r", ".", "l", "u", "a", "u">>

\* /w/Packages/Promise.lua
PromiseLink == <<"/", "w", "/", "P", "a", "c", "k", "a", "g", "e", "s", "/", "P", "r", "o", "m", "i", "s", "e", ".", "l", "u", "a">>

\* the files that come and go on disk
IndexFiles == {JanitorShared, NodeModulesLib, MainServer, PromiseLink}

\* the order findFiles reports files in
FileOrder == <<JanitorShared, NodeModulesLib, MainServer, PromiseLink>>

\* the directories of the path: the segments in front of the file name
Directories(fsPath) == LET parts == Split(fsPath, Slash) IN {parts[i] : i \in 1..(Len(parts) - 1)}

\* path.dirname(p)
Dirname(p) == LET parts == Split(p, Slash) IN Join(SubSeq(parts, 1, Len(parts) - 1), Slash)

\* path.basename(path.dirname(fsPath))
ParentName(fsPath) == Const(Dirname(fsPath), LAMBDA parentDir : Basename(parentDir))

NodeModulesFolder == <<"n", "o", "d", "e", "_", "m", "o", "d", "u", "l", "e", "s">>

IndexFolder == <<"_", "I", "n", "d", "e", "x">>

WallyFolders == {<<"P", "a", "c", "k", "a", "g", "e", "s">>, <<"S", "e", "r", "v", "e", "r", "P", "a", "c", "k", "a", "g", "e", "s">>, <<"D", "e", "v", "P", "a", "c", "k", "a", "g", "e", "s">>}

\* the glob **/*.luau
MatchesLuauGlob(fsPath) == EndsWith(Basename(fsPath), DotLuau)

\* the glob {**/Packages/*.lua,**/ServerPackages/*.lua,**/DevPackages/*.lua}
MatchesWallyGlob(fsPath) ==
  /\ EndsWith(Basename(fsPath), DotLua)
  /\ ParentName(fsPath) \in WallyFolders

\* the files of a set, in the order findFiles reports them
InOrder(files) == SelectSeq(FileOrder, LAMBDA f : f \in files)

\* findFiles('**/*.luau', '{**/node_modules/**,**/_Index/**}')
FindLuauFiles(files) ==
  {f \in files : /\ MatchesLuauGlob(f)
                 /\ NodeModulesFolder \notin Directories(f)
                 /\ IndexFolder \notin Directories(f)}

\* findFiles of the Wally link files, '**/_Index/**' excluded
FindWallyPackageFiles(files) ==
  {f \in files : MatchesWallyGlob(f) /\ IndexFolder \notin Directories(f)}

\* fsPath.includes('/_Index/')
InIndexFolder(fsPath) == IncludesString(fsPath, <<Slash>> \o IndexFolder \o <<Slash>>)

\* shouldIndex of setupFileWatcher
shouldIndex(fsPath) == ~InIndexFolder(fsPath)

\* isServerScript || isClientScript
IsScript(fileName) ==
  LET lowerFileName == ToLowerCase(fileName)
  IN /\ \/ EndsWith(lowerFileName, <<".", "s", "e", "r", "v", "e", "r", ".", "l", "u", "a", "u">>)
        \/ EndsWith(lowerFileName, <<".", "s", "e", "r", "v", "e", "r", ".", "l", "u", "a">>)
        \/ EndsWith(lowerFileName, <<".", "c", "l", "i", "e", "n", "t", ".", "l", "u", "a", "u">>)
        \/ EndsWith(lowerFileName, <<".", "c", "l", "i", "e", "n", "t", ".", "l", "u", "a">>)
     /\ ~StartsWith(lowerFileName, <<"i", "n", "i", "t", ".">>)

\* the extensions indexFile removes, in the order it tests them
IndexedExtensions ==
  <<<<".", "s", "e", "r", "v", "e", "r", ".", "l", "u", "a", "u">>, <<".", "c", "l", "i", "e", "n", "t", ".", "l", "u", "a", "u">>, <<".", "s", "e", "r", "v", "e", "r", ".", "l", "u", "a">>, <<".", "c", "l", "i", "e", "n", "t", ".", "l", "u", "a">>, DotLuau, DotLua>>

\* name.replace(/\.(luau|lua|server|client)$/i, '')
TrailingExtensions == <<DotLuau, DotLua, <<".", "s", "e", "r", "v", "e", "r">>, <<".", "c", "l", "i", "e", "n", "t">>>>

\* the name indexFile gives the module
ModuleNameOf(fsPath) ==
  Const(Basename(fsPath), LAMBDA fileName :
  Const(StripSuffixCI(fileName, IndexedExtensions), LAMBDA nameWithoutExt :
  Const(IF ToLowerCase(nameWithoutExt) = InitName THEN ParentName(fsPath) ELSE nameWithoutExt, LAMBDA name :
        IF Includes(name, ".") THEN StripSuffixCI(name, TrailingExtensions) ELSE name)))

\* the relative path indexFile gives the module
RelativePathOf(fsPath) ==
  Const(FindWorkspaceFolder(fsPath), LAMBDA workspaceFolder :
        IF workspaceFolder.found
        THEN Const(workspaceFolder.path, LAMBDA folder : PathRelative(folder, fsPath))
        ELSE fsPath)

\* indexFile returns before it pushes: a dot file, a file under _Index, a
\* server or client script that is no init file
Skipped(fsPath) ==
  Const(Basename(fsPath), LAMBDA fileName :
        \/ StartsWith(fileName, <<".">>)
        \/ InIndexFolder(fsPath)
        \/ IsScript(fileName))

\* the indexer's modules and its resolver's cache, the two things indexFile writes
Index(mods, cache) == [modules |-> mods, cache |-> cache]

\* indexFile(uri, isWallyPackage), the resolver holding the snapshots sourcemap
\* and project
indexFile(index, sourcemap, project, fsPath, isWallyPackage) ==
  Const(fsPath, LAMBDA file :
    IF Skipped(file) THEN index
    ELSE Const(IF file \in DOMAIN index.cache THEN index.cache[file]
               ELSE ComputeInstancePath(sourcemap, project, file), LAMBDA instancePath :
           Index(Append(index.modules,
                        [name |-> ModuleNameOf(file), fsPath |-> file,
                         instancePath |-> instancePath,
                         relativePath |-> RelativePathOf(file),
                         isWallyPackage |-> isWallyPackage]),
                 IF file \in DOMAIN index.cache THEN index.cache
                 ELSE CacheSet(index.cache, file, instancePath))))

RECURSIVE IndexFilesLoop(_, _, _, _, _)
\* for (const file of files) this.indexFile(file, isWallyPackage)
IndexFilesLoop(index, sourcemap, project, files, isWallyPackage) ==
  IF files = <<>> THEN index
  ELSE Const(Head(files), LAMBDA file :
       Const(Tail(files), LAMBDA rest :
       Const(indexFile(index, sourcemap, project, file, isWallyPackage), LAMBDA next :
             IndexFilesLoop(next, sourcemap, project, rest, isWallyPackage))))

\* this.modules.filter(m => m.fsPath !== uri.fsPath)
WithoutFile(mods, fsPath) == SelectSeq(mods, LAMBDA m : m.fsPath # fsPath)

\* the two loops of rebuildIndex over what the two findFiles calls returned
IndexFound(index, sourcemap, project, luauFiles, wallyPackageFiles) ==
  Const(InOrder(luauFiles), LAMBDA luau :
  Const(InOrder(wallyPackageFiles), LAMBDA wally :
  Const(IndexFilesLoop(index, sourcemap, project, luau, FALSE), LAMBDA indexed :
        IndexFilesLoop(indexed, sourcemap, project, wally, TRUE))))

\* what a loader of the resolver leaves in the folder's entry, the entry being
\* previous before
Loaded(content, previous) == IF Loadable(content) THEN content ELSE previous


---------------------------------------------------------------------------
(* The activated extension: its handlers, and what happens around it *)

\* activate() has returned, nothing having changed on disk while it ran
InitExtension ==
  /\ diskFiles = {JanitorShared, MainServer}
  /\ diskSourcemap \in DiskSourcemaps
  /\ diskProject \in DiskProjects
  /\ sourcemapCache = Loaded(diskSourcemap, NotLoaded)
  /\ rojoProjectCache = Loaded(diskProject, NotLoaded)
  /\ initialized = TRUE
  /\ initPc = "idle"
  /\ lastCall = NoCall
  /\ LET index == IndexFound(Index(<<>>, EmptyCache), sourcemapCache, rojoProjectCache,
                             FindLuauFiles(diskFiles), FindWallyPackageFiles(diskFiles))
     IN /\ modules = index.modules
        /\ fileToInstancePathCache = index.cache
  /\ indexing = FALSE
  /\ rebuilds = <<>>
  /\ watching = TRUE
  /\ isReinitializing = FALSE
  /\ reinitPc = "idle"
  /\ newResolver = NewResolver
  /\ events = <<>>
  /\ changes = 0
  /\ earlyReturns = 0
  /\ heldIndexer = NotDisposed
  /\ served = NotServed
  /\ InitNoDocument
  /\ InitNoQuery

unusedResolverVars == <<initialized, initPc, lastCall>>

\* the watcher of the indexer a file's events go to
WatcherOf(fsPath) ==
  IF MatchesLuauGlob(fsPath) THEN "luau"
  ELSE IF MatchesWallyGlob(fsPath) THEN "lua"
  ELSE "none"

FileEvent(kind, fsPath) == [watcher |-> WatcherOf(fsPath), kind |-> kind, file |-> fsPath]

\* the events a change of a file raises: none before setupFileWatcher has run
Raised(kind, fsPath) ==
  IF watching /\ WatcherOf(fsPath) # "none" THEN <<FileEvent(kind, fsPath)>> ELSE <<>>

\* the kind of event a write of content raises, the file holding previous
WriteKind(previous, content) ==
  IF previous = Absent THEN "create" ELSE IF content = Absent THEN "delete" ELSE "change"

\* a file is created
CreateFile(fsPath) ==
  /\ changes < MaxChanges
  /\ fsPath \notin diskFiles
  /\ diskFiles' = diskFiles \cup {fsPath}
  /\ events' = events \o Raised("create", fsPath)
  /\ changes' = changes + 1
  /\ UNCHANGED <<diskSourcemap, diskProject, modules, indexing, rebuilds, watching, isReinitializing,
                 reinitPc, newResolver, resolverVars, providerVars, matcherVars, heldIndexer, served,
                 earlyReturns>>

\* a file is written
ChangeFile(fsPath) ==
  /\ changes < MaxChanges
  /\ fsPath \in diskFiles
  /\ events' = events \o Raised("change", fsPath)
  /\ changes' = changes + 1
  /\ UNCHANGED <<diskFiles, diskSourcemap, diskProject, modules, indexing, rebuilds, watching,
                 isReinitializing, reinitPc, newResolver, resolverVars, providerVars, matcherVars, heldIndexer, served,
                 earlyReturns>>

\* a file is deleted
DeleteFile(fsPath) ==
  /\ changes < MaxChanges
  /\ fsPath \in diskFiles
  /\ diskFiles' = diskFiles \ {fsPath}
  /\ events' = events \o Raised("delete", fsPath)
  /\ changes' = changes + 1
  /\ UNCHANGED <<diskSourcemap, diskProject, modules, indexing, rebuilds, watching, isReinitializing,
                 reinitPc, newResolver, resolverVars, providerVars, matcherVars, heldIndexer, served,
                 earlyReturns>>

\* sourcemap.json is created, written or deleted
WriteSourcemap(content) ==
  /\ changes < MaxChanges
  /\ diskSourcemap # Absent \/ content # Absent
  /\ diskSourcemap' = content
  /\ events' = Append(events, [watcher |-> "sourcemap", kind |-> WriteKind(diskSourcemap, content), file |-> <<>>])
  /\ changes' = changes + 1
  /\ UNCHANGED <<diskFiles, diskProject, modules, indexing, rebuilds, watching, isReinitializing,
                 reinitPc, newResolver, resolverVars, providerVars, matcherVars, heldIndexer, served,
                 earlyReturns>>

\* default.project.json is created, written or deleted
WriteRojoProject(content) ==
  /\ changes < MaxChanges
  /\ diskProject # Absent \/ content # Absent
  /\ diskProject' = content
  /\ events' = Append(events, [watcher |-> "project", kind |-> WriteKind(diskProject, content), file |-> <<>>])
  /\ changes' = changes + 1
  /\ UNCHANGED <<diskFiles, diskSourcemap, modules, indexing, rebuilds, watching, isReinitializing,
                 reinitPc, newResolver, resolverVars, providerVars, matcherVars, heldIndexer, served,
                 earlyReturns>>

\* a rebuildIndex that never takes the early return; C18 rejects it
NeverIndexing == FALSE

\* if (this.indexing)
AlreadyIndexing == indexing

\* rebuildIndex() up to its first await, called on the current indexer
rebuildIndex ==
  IF AlreadyIndexing
  THEN /\ earlyReturns' = earlyReturns + 1
       /\ UNCHANGED <<indexing, modules, rebuilds>>
  ELSE /\ indexing' = TRUE
       /\ modules' = <<>>
       /\ rebuilds' = Append(rebuilds, Activation(FALSE))
       /\ UNCHANGED earlyReturns

\* the command robloxSuperRequire.reindex
ReindexCommand ==
  /\ changes < MaxChanges
  /\ changes' = changes + 1
  /\ rebuildIndex
  /\ UNCHANGED <<diskFiles, diskSourcemap, diskProject, watching, isReinitializing, reinitPc,
                 newResolver, events, resolverVars, providerVars, matcherVars, heldIndexer, served>>

\* handleSourcemapChange, up to its await
HandleSourcemapChange ==
  /\ events # <<>>
  /\ Head(events).watcher = "sourcemap"
  /\ events' = Tail(events)
  /\ IF isReinitializing
     THEN UNCHANGED <<sourcemapCache, fileToInstancePathCache, indexing, modules, rebuilds, earlyReturns>>
     ELSE /\ sourcemapCache' = Loaded(diskSourcemap, NotLoaded)
          /\ fileToInstancePathCache' = EmptyCache
          /\ rebuildIndex
  /\ UNCHANGED <<diskFiles, diskSourcemap, diskProject, watching, isReinitializing, reinitPc,
                 newResolver, changes, rojoProjectCache, unusedResolverVars, providerVars, matcherVars, heldIndexer, served>>

\* handleRojoProjectChange, up to its await
HandleRojoProjectChange ==
  /\ events # <<>>
  /\ Head(events).watcher = "project"
  /\ events' = Tail(events)
  /\ IF isReinitializing
     THEN UNCHANGED <<rojoProjectCache, fileToInstancePathCache, indexing, modules, rebuilds, earlyReturns>>
     ELSE /\ rojoProjectCache' = Loaded(diskProject, NotLoaded)
          /\ fileToInstancePathCache' = EmptyCache
          /\ rebuildIndex
  /\ UNCHANGED <<diskFiles, diskSourcemap, diskProject, watching, isReinitializing, reinitPc,
                 newResolver, changes, sourcemapCache, unusedResolverVars, providerVars, matcherVars, heldIndexer, served>>

\* what a handler of the indexer's watchers leaves of the index
Handled(e, index) ==
  CASE e.kind = "create" ->
         IF shouldIndex(e.file)
         THEN indexFile(index, sourcemapCache, rojoProjectCache, e.file, e.watcher = "lua")
         ELSE index
    [] e.kind = "delete" -> Index(WithoutFile(index.modules, e.file), index.cache)
    [] e.kind = "change" ->
         IF shouldIndex(e.file)
         THEN indexFile(Index(WithoutFile(index.modules, e.file), index.cache),
                        sourcemapCache, rojoProjectCache, e.file, e.watcher = "lua")
         ELSE index

\* onDidCreate, onDidDelete and onDidChange of luauWatcher and luaWatcher
HandleFileEvent ==
  /\ events # <<>>
  /\ Head(events).watcher \in {"luau", "lua"}
  /\ events' = Tail(events)
  /\ LET index == Handled(Head(events), Index(modules, fileToInstancePathCache))
     IN /\ modules' = index.modules
        /\ fileToInstancePathCache' = index.cache
  /\ UNCHANGED <<diskFiles, diskSourcemap, diskProject, indexing, rebuilds, watching, isReinitializing,
                 reinitPc, newResolver, changes, sourcemapCache, rojoProjectCache, unusedResolverVars,
                 providerVars, matcherVars, heldIndexer, served,
                 earlyReturns>>

\* the first findFiles of a rebuildIndex resolves
RebuildFindLuau(i) ==
  /\ i \in DOMAIN rebuilds
  /\ rebuilds[i].pc = "luau"
  /\ rebuilds' = [rebuilds EXCEPT ![i] = [@ EXCEPT !.pc = "wally", !.luauFiles = FindLuauFiles(diskFiles)]]
  /\ UNCHANGED <<diskFiles, diskSourcemap, diskProject, modules, indexing, watching, isReinitializing,
                 reinitPc, newResolver, events, changes, resolverVars, providerVars, matcherVars, heldIndexer, served,
                 earlyReturns>>

\* the second findFiles of a rebuildIndex resolves and the body runs to its end;
\* behind an initialize() come setupFileWatcher and the end of the workspace
\* folder handler
RebuildFinish(i) ==
  /\ i \in DOMAIN rebuilds
  /\ rebuilds[i].pc = "wally"
  /\ LET index == IndexFound(Index(modules, fileToInstancePathCache), sourcemapCache, rojoProjectCache,
                             rebuilds[i].luauFiles, FindWallyPackageFiles(diskFiles))
     IN /\ modules' = index.modules
        /\ fileToInstancePathCache' = index.cache
  /\ indexing' = FALSE
  /\ rebuilds' = SubSeq(rebuilds, 1, i - 1) \o SubSeq(rebuilds, i + 1, Len(rebuilds))
  /\ IF rebuilds[i].initial
     THEN /\ watching' = TRUE
          /\ isReinitializing' = FALSE
          /\ reinitPc' = "idle"
     ELSE UNCHANGED <<watching, isReinitializing, reinitPc>>
  /\ UNCHANGED <<diskFiles, diskSourcemap, diskProject, newResolver, events, changes, sourcemapCache,
                 rojoProjectCache, unusedResolverVars, providerVars, matcherVars, heldIndexer, served,
                 earlyReturns>>

\* onDidChangeWorkspaceFolders, up to the first await of the new resolver's
\* initialize()
ChangeWorkspaceFolders ==
  /\ changes < MaxChanges
  /\ changes' = changes + 1
  /\ IF isReinitializing
     THEN UNCHANGED <<isReinitializing, reinitPc, newResolver>>
     ELSE /\ isReinitializing' = TRUE
          /\ reinitPc' = "sourcemaps"
          /\ newResolver' = NewResolver
  /\ UNCHANGED <<diskFiles, diskSourcemap, diskProject, modules, indexing, rebuilds, watching, events,
                 resolverVars, providerVars, matcherVars, heldIndexer, served,
                 earlyReturns>>

\* loadSourcemapsAsync of the new resolver returns
ReinitLoadSourcemaps ==
  /\ reinitPc = "sourcemaps"
  /\ newResolver' = [newResolver EXCEPT !.sourcemap = Loaded(diskSourcemap, @)]
  /\ reinitPc' = "projects"
  /\ UNCHANGED <<diskFiles, diskSourcemap, diskProject, modules, indexing, rebuilds, watching,
                 isReinitializing, events, changes, resolverVars, providerVars, matcherVars, heldIndexer, served,
                 earlyReturns>>

\* dispose() of the indexer the completion provider holds: its watchers are
\* disposed and its modules emptied; the bodies of rebuildIndex that are in
\* progress go on, with the PathResolver it was built with
Disposed(bodies, sourcemap, project, cache) ==
  [disposed |-> TRUE, modules |-> <<>>, rebuilds |-> bodies, sourcemap |-> sourcemap,
   project |-> project, cache |-> cache]

\* loadRojoProjectsAsync of the new resolver returns; the old indexer is
\* disposed, and the new one, which holds the new resolver, starts its
\* initialize()
ReinitLoadRojoProjects ==
  /\ reinitPc = "projects"
  /\ sourcemapCache' = newResolver.sourcemap
  /\ rojoProjectCache' = Loaded(diskProject, newResolver.project)
  /\ fileToInstancePathCache' = EmptyCache
  /\ newResolver' = NewResolver
  /\ events' = SelectSeq(events, LAMBDA e : e.watcher \notin {"luau", "lua"})
  /\ watching' = FALSE
  /\ modules' = <<>>
  /\ indexing' = TRUE
  /\ rebuilds' = <<Activation(TRUE)>>
  /\ reinitPc' = "index"
  /\ heldIndexer' = IF heldIndexer.disposed THEN heldIndexer
                    ELSE Disposed(rebuilds, sourcemapCache, rojoProjectCache, fileToInstancePathCache)
  /\ UNCHANGED <<diskFiles, diskSourcemap, diskProject, isReinitializing, changes, unusedResolverVars,
                 providerVars, matcherVars, served,
                 earlyReturns>>

\* the first findFiles of a rebuildIndex of the disposed indexer resolves
DisposedRebuildFindLuau(i) ==
  /\ heldIndexer.disposed
  /\ i \in DOMAIN heldIndexer.rebuilds
  /\ heldIndexer.rebuilds[i].pc = "luau"
  /\ heldIndexer' = [heldIndexer EXCEPT !.rebuilds[i] =
                       [@ EXCEPT !.pc = "wally", !.luauFiles = FindLuauFiles(diskFiles)]]
  /\ UNCHANGED <<diskFiles, diskSourcemap, diskProject, modules, indexing, rebuilds, watching,
                 isReinitializing, reinitPc, newResolver, events, changes, resolverVars, providerVars,
                 matcherVars, served, earlyReturns>>

\* the second findFiles of a rebuildIndex of the disposed indexer resolves and
\* the body runs to its end, with the PathResolver that indexer was built with
DisposedRebuildFinish(i) ==
  /\ heldIndexer.disposed
  /\ i \in DOMAIN heldIndexer.rebuilds
  /\ heldIndexer.rebuilds[i].pc = "wally"
  /\ LET index == IndexFound(Index(heldIndexer.modules, heldIndexer.cache), heldIndexer.sourcemap,
                             heldIndexer.project, heldIndexer.rebuilds[i].luauFiles,
                             FindWallyPackageFiles(diskFiles))
     IN heldIndexer' = [heldIndexer EXCEPT
                          !.modules = index.modules,
                          !.cache = index.cache,
                          !.rebuilds = SubSeq(@, 1, i - 1) \o SubSeq(@, i + 1, Len(@))]
  /\ UNCHANGED <<diskFiles, diskSourcemap, diskProject, modules, indexing, rebuilds, watching,
                 isReinitializing, reinitPc, newResolver, events, changes, resolverVars, providerVars,
                 matcherVars, served, earlyReturns>>

\* this.moduleIndexer.getModules() of the completion provider
AllModules == IF heldIndexer.disposed THEN heldIndexer.modules ELSE modules

\* searchModules of the completion provider, in a completion request
SearchModules ==
  /\ served' = [called |-> TRUE,
                afterFolderChange |-> heldIndexer.disposed /\ ~isReinitializing,
                fromDisposed |-> heldIndexer.disposed,
                fromCurrentModules |-> AllModules = modules]
  /\ UNCHANGED <<diskFiles, diskSourcemap, diskProject, modules, indexing, rebuilds, watching,
                 isReinitializing, reinitPc, newResolver, events, changes, resolverVars, providerVars,
                 matcherVars, heldIndexer, earlyReturns>>

\* what the extension host does by itself: it runs the handler of the oldest
\* raised event and the continuations of the awaited calls
HostSteps ==
  \/ HandleSourcemapChange
  \/ HandleRojoProjectChange
  \/ HandleFileEvent
  \/ \E i \in DOMAIN rebuilds : RebuildFindLuau(i)
  \/ \E i \in DOMAIN rebuilds : RebuildFinish(i)
  \/ ReinitLoadSourcemaps
  \/ ReinitLoadRojoProjects
  \/ \E i \in DOMAIN heldIndexer.rebuilds : DisposedRebuildFindLuau(i)
  \/ \E i \in DOMAIN heldIndexer.rebuilds : DisposedRebuildFinish(i)

NextExtension ==
  \/ \E fsPath \in IndexFiles : CreateFile(fsPath)
  \/ \E fsPath \in IndexFiles : ChangeFile(fsPath)
  \/ \E fsPath \in IndexFiles : DeleteFile(fsPath)
  \/ \E content \in DiskSourcemaps : WriteSourcemap(content)
  \/ \E content \in DiskProjects : WriteRojoProject(content)
  \/ ReindexCommand
  \/ ChangeWorkspaceFolders
  \/ SearchModules
  \/ HostSteps

SpecExtension == InitExtension /\ [][NextExtension]_vars

---------------------------------------------------------------------------
(* What the claims speak of *)

\* the outcome of each tier for the call that just returned
SourcemapTier == ResolveFromSourcemapAsSegments(sourcemapCache, lastCall.path)

RojoTier == ResolveFromRojoProjectAsSegments(rojoProjectCache, lastCall.path)

ConventionTier == ResolveFromConventionAsSegments(lastCall.path)

\* a tier matched: its search returned a segments array
Matched(tier) == tier.kind = "segs"

\* the logical path of a tier's segments
TierPath(tier) == Game \o FormatSegments(tier.segs)

---------------------------------------------------------------------------
(* C1 *)

\* C1: with the loaded snapshots held fixed, every call of resolveInstancePath,
\* served from fileToInstancePathCache or computed, returns the path that the
\* three tiers compute from the snapshots with an empty cache; so a path always
\* resolves to the same string and clearCache changes no result.
C1_CacheTransparent ==
  lastCall.called =>
    lastCall.result = ComputeInstancePath(sourcemapCache, rojoProjectCache, lastCall.path)

\* a call served from the cache while a sourcemap and a project are loaded and
\* a second path is cached too
C1_Witness ==
  /\ lastCall.called
  /\ lastCall.hit
  /\ lastCall.path = JanitorShared
  /\ sourcemapCache = SourcemapA
  /\ rojoProjectCache = ProjectA
  /\ UtilsInit \in DOMAIN fileToInstancePathCache

---------------------------------------------------------------------------
(* C2 *)

\* C2 as claimed: the result is the path of the first tier that matches, the
\* sourcemap before the project tree before the convention.
C2_FirstMatchingTierWins ==
  lastCall.called =>
    /\ Matched(SourcemapTier) => lastCall.result = TierPath(SourcemapTier)
    /\ SourcemapTier.kind = "null" /\ Matched(RojoTier) => lastCall.result = TierPath(RojoTier)

\* C2, amended: the result is the path of the first tier whose search returns at
\* least one segment: a sourcemap match wins over the project tree and the
\* convention, a project-tree match with at least one segment wins over the
\* convention, and a project-tree match with no segment is passed over for the
\* convention.  With sourcemap A and project A loaded, Janitor.luau resolves to
\* the sourcemap node game.Workspace.Lib.Janitor.
C2_FirstNonEmptyTierWins ==
  lastCall.called =>
    /\ Matched(SourcemapTier) =>
         /\ Len(SourcemapTier.segs) > 0
         /\ lastCall.result = TierPath(SourcemapTier)
    /\ SourcemapTier.kind = "null" /\ Matched(RojoTier) /\ Len(RojoTier.segs) > 0 =>
         lastCall.result = TierPath(RojoTier)
    /\ SourcemapTier.kind = "null" /\ Matched(RojoTier) /\ Len(RojoTier.segs) = 0
         /\ Matched(ConventionTier) =>
         lastCall.result = TierPath(ConventionTier)
    /\ lastCall.path = JanitorShared /\ sourcemapCache = SourcemapA =>
         lastCall.result = <<"g", "a", "m", "e", ".", "W", "o", "r", "k", "s", "p", "a", "c", "e", ".", "L", "i", "b", ".", "J", "a", "n", "i", "t", "o", "r">>
    /\ lastCall.path = SharedInitServer /\ sourcemapCache = NotLoaded /\ rojoProjectCache = ProjectA =>
         lastCall.result = <<"g", "a", "m", "e", ".", "R", "e", "p", "l", "i", "c", "a", "t", "e", "d", "S", "t", "o", "r", "a", "g", "e", ".", "S", "h", "a", "r", "e", "d">>

\* the three tiers all match and the sourcemap's path is returned
C2_Witness ==
  /\ lastCall.called
  /\ ~lastCall.hit
  /\ Matched(SourcemapTier)
  /\ Matched(RojoTier) /\ Len(RojoTier.segs) > 0
  /\ Matched(ConventionTier)
  /\ TierPath(SourcemapTier) # TierPath(RojoTier)
  /\ TierPath(RojoTier) # TierPath(ConventionTier)
  /\ lastCall.result = TierPath(SourcemapTier)

---------------------------------------------------------------------------
(* C3 and C4 *)

\* the file is an index file: init, an optional role and a source extension
IsIndexFile(fsPath) ==
  ToLowerCase(StripSuffixCI(StripSuffixCI(Basename(fsPath), RoleSourceSuffixes), SourceSuffixes)) = InitName

\* X of a module file X.luau or X.lua
ModuleName(fsPath) == StripSuffixCI(Basename(fsPath), SourceSuffixes)

\* the call that just returned was computed by the project-tree tier or by the
\* convention tier
ByProjectOrConvention ==
  /\ lastCall.called
  /\ ~lastCall.hit
  /\ SourcemapTier.kind = "null"
  /\ RojoTier.kind # "throw"
  /\ (Matched(RojoTier) /\ Len(RojoTier.segs) > 0) \/ ConventionTier.kind # "throw"

\* C3: a module file X.luau resolved by the project-tree tier or by the
\* convention tier gets a logical path whose last segment is X, without the
\* extension.
C3_NoExtensionInLogicalPath ==
  ByProjectOrConvention /\ ~IsIndexFile(lastCall.path) =>
    EndsWith(lastCall.result, FormatPathSegment(ModuleName(lastCall.path)))

\* the accessors an index file would leave behind as a segment of its own
InitAccessors ==
  {FormatPathSegment(InitName \o ext) :
     ext \in {<<>>, DotLuau, DotLua, <<".", "s", "e", "r", "v", "e", "r", ".", "l", "u", "a", "u">>, <<".", "c", "l", "i", "e", "n", "t", ".", "l", "u", "a", "u">>}}

\* the file lies in a directory below the workspace folder
InDirectory(fsPath) == Len(Split(PathRelative(WS, fsPath), Slash)) >= 2

\* C4: an index file init.<ext> inside a directory Foo, resolved by the
\* project-tree tier or by the convention tier, gets a logical path that ends
\* with the segment of Foo and never with a segment of the index file.
C4_IndexCollapsing ==
  (/\ ByProjectOrConvention
   /\ IsIndexFile(lastCall.path)
   /\ InDirectory(lastCall.path)
   /\ StartsWith(lastCall.path, WS \o <<Slash>>))
  => \A a \in InitAccessors : ~EndsWith(ToLowerCase(lastCall.result), a)

---------------------------------------------------------------------------
(* C5 *)

\* C5: resolveInstancePath can be called for every path in every state, and
\* whatever the loaded trees hold it returns the root token game followed by at
\* least one segment accessor.
C5_Total ==
  /\ \A fsPath \in Paths : ENABLED ResolveInstancePath(fsPath)
  /\ lastCall.called =>
       /\ StartsWith(lastCall.result, Game)
       /\ Len(lastCall.result) > Len(Game) + 1
       /\ \/ lastCall.result[Len(Game) + 1] = "."
          \/ SubSeq(lastCall.result, Len(Game) + 1, Len(Game) + 2) = <<"[", "\"">>

\* a call during which the sourcemap traversal threw on a null child
C5_Witness ==
  /\ lastCall.called
  /\ ~lastCall.hit
  /\ SourcemapTier.kind = "throw"
  /\ lastCall.path = UtilsInit

---------------------------------------------------------------------------
(* C6 *)

\* what the tiers after the sourcemap give when none of them throws
AfterSourcemap ==
  IF Matched(RojoTier) /\ Len(RojoTier.segs) > 0 THEN TierPath(RojoTier)
  ELSE TierPath(ConventionTier)

\* C6: when the traversal of one tree throws, the next tier is tried: after a
\* throwing sourcemap search the project tree and then the convention decide the
\* result, after a throwing project-tree search the convention does, and the bare
\* file name is returned only when the convention itself throws.
C6_FallThroughOnThrow ==
  lastCall.called /\ ~lastCall.hit =>
    /\ SourcemapTier.kind = "throw" /\ RojoTier.kind # "throw" /\ ConventionTier.kind # "throw" =>
         lastCall.result = AfterSourcemap
    /\ SourcemapTier.kind = "null" /\ RojoTier.kind = "throw" /\ ConventionTier.kind # "throw" =>
         lastCall.result = TierPath(ConventionTier)

---------------------------------------------------------------------------
(* C7 *)

\* C7: every entry of fileToInstancePathCache is the path the three tiers compute
\* from the snapshots that are loaded now.
C7_CacheFollowsSnapshots ==
  \A fsPath \in DOMAIN fileToInstancePathCache :
    fileToInstancePathCache[fsPath] = ComputeInstancePath(sourcemapCache, rojoProjectCache, fsPath)

---------------------------------------------------------------------------
(* What the claims about buildRequirePath speak of *)

RECURSIVE ClosingQuote(_, _)
\* the index of the quote that closes a bracket string whose text starts at i
ClosingQuote(s, i) ==
  IF i > Len(s) THEN i
  ELSE IF s[i] = "\\" THEN ClosingQuote(s, i + 2)
  ELSE IF s[i] = "\"" THEN i
  ELSE ClosingQuote(s, i + 1)

\* the index of the last character of the accessor of s that starts at i: .name,
\* or ["text"] with its escapes
SegmentEnd(s, i) ==
  IF s[i] = "." THEN WordRunEnd(s, i + 1)
  ELSE IF s[i] = "[" THEN ClosingQuote(s, i + 2) + 1
  ELSE Len(s)

RECURSIVE AccessorSegments(_, _)
\* the accessors of a logical path from index i on, one per segment
AccessorSegments(s, i) ==
  IF i > Len(s) THEN <<>>
  ELSE <<SubSeq(s, i, SegmentEnd(s, i))>> \o AccessorSegments(s, SegmentEnd(s, i) + 1)

\* the segment list of a logical path: the root token and one entry per accessor
LogicalSegments(path) == <<Game>> \o AccessorSegments(path, Len(Game) + 1)

\* the bindings of the request whose logical path is, letter case aside, a
\* prefix of the target that ends at a segment boundary
MatchingBindings ==
  {i \in DOMAIN lastRequest.definedVariables :
     LET prefix == lastRequest.definedVariables[i].instancePath
         target == lastRequest.instancePath
     IN /\ StartsWith(ToLowerCase(target), ToLowerCase(prefix))
        /\ (Len(prefix) = Len(target) \/ target[Len(prefix) + 1] \in {".", "["})}

\* the number of segments of the i-th binding's logical path
BindingSegments(i) == Len(LogicalSegments(lastRequest.definedVariables[i].instancePath))

\* the expression the alias strategy builds from the i-th binding
AliasExpression(i) ==
  lastRequest.definedVariables[i].varName
    \o Substring(lastRequest.instancePath, Len(lastRequest.definedVariables[i].instancePath))

---------------------------------------------------------------------------
(* C8 *)

\* C8: when one or more bindings have a logical path that is a prefix of the
\* target ending at a segment boundary, the require path is built from one with
\* the most segments among them.  With A = game.X and B = A.Y the target
\* game.X.Y.Z gives B.Z, and with V1 = game:GetService("ReplicatedStorage") and
\* V2 = V1.Shared the target game.ReplicatedStorage.Shared.Utils gives V2.Utils.
C8_DeepestAliasWins ==
  lastRequest.called =>
    /\ MatchingBindings # {} =>
         \E i \in MatchingBindings :
           /\ \A j \in MatchingBindings : BindingSegments(j) <= BindingSegments(i)
           /\ lastRequest.requirePath = AliasExpression(i)
    /\ (/\ document \in {<<DeclareA, DeclareB>>, <<DeclareB, DeclareA>>}
        /\ lastRequest.instancePath = <<"g", "a", "m", "e", ".", "X", ".", "Y", ".", "Z">>)
       => lastRequest.requirePath = <<"B", ".", "Z">>
    /\ (/\ document \in {<<DeclareV1, DeclareV2>>, <<DeclareV2, DeclareV1>>}
        /\ lastRequest.instancePath = <<"g", "a", "m", "e", ".", "R", "e", "p", "l", "i", "c", "a", "t", "e", "d", "S", "t", "o", "r", "a", "g", "e", ".", "S", "h", "a", "r", "e", "d", ".", "U", "t", "i", "l", "s">>)
       => lastRequest.requirePath = <<"V", "2", ".", "U", "t", "i", "l", "s">>

\* a request with two matching bindings of different depth, declared deepest
\* last
C8_Witness ==
  /\ lastRequest.called
  /\ document = <<DeclareA, DeclareB>>
  /\ lastRequest.instancePath = <<"g", "a", "m", "e", ".", "X", ".", "Y", ".", "Z">>
  /\ Cardinality(MatchingBindings) = 2
  /\ \E i, j \in MatchingBindings : BindingSegments(i) < BindingSegments(j)
  /\ lastRequest.requirePath = <<"B", ".", "Z">>

---------------------------------------------------------------------------
(* C9 *)

\* the target's top-level service: the name its first accessor gives
TopLevelService ==
  LET accessor == LogicalSegments(lastRequest.instancePath)[2] IN
  IF accessor[1] = "." THEN Tail(accessor) ELSE SubSeq(accessor, 3, Len(accessor) - 2)

\* the target behind its first accessor
AfterTopLevelService ==
  Substring(lastRequest.instancePath, SegmentEnd(lastRequest.instancePath, Len(Game) + 1))

\* the relative strategy's outcome for the request
RelativeOutcome ==
  IF currentScriptPath.isNull \/ config.pathStyle = "absolute" THEN Null
  ELSE GetRelativePath(config, currentScriptPath.value, lastRequest.instancePath)

\* C9: the require path is the result of the first applicable strategy in the
\* order alias match, relative path, declared variable of the target's top-level
\* service, game:GetService wrap when useGetService is set, unchanged instance
\* path; a later strategy's result is returned only when no earlier one applies.
C9_FirstApplicableStrategy ==
  lastRequest.called =>
    IF MatchingBindings # {}
    THEN \E i \in MatchingBindings : lastRequest.requirePath = AliasExpression(i)
    ELSE IF ~RelativeOutcome.isNull
    THEN lastRequest.requirePath = RelativeOutcome.value
    ELSE IF TopLevelService \in DOMAIN lastRequest.definedServices
    THEN lastRequest.requirePath = lastRequest.definedServices[TopLevelService] \o AfterTopLevelService
    ELSE IF config.useGetService
    THEN lastRequest.requirePath = GetServiceCall(TopLevelService, AfterTopLevelService)
    ELSE lastRequest.requirePath = lastRequest.instancePath

---------------------------------------------------------------------------
(* C10 *)

\* the require path is a result of the relative strategy
IsRelativeResult == StartsWith(lastRequest.requirePath, <<"s", "c", "r", "i", "p", "t">>)

\* c: the number of leading segments the current script's path and the target
\* share
CommonSegments ==
  CommonLength(LogicalSegments(currentScriptPath.value), LogicalSegments(lastRequest.instancePath), 1)

\* parentHops = len(currentSegments) - c
ParentHops == Len(LogicalSegments(currentScriptPath.value)) - CommonSegments

\* C10: the relative strategy produces the result only when the current
\* script's path is known, pathStyle is not absolute, the two segment lists share
\* at least 2 leading segments and the parent hops do not exceed the maximum of 3.
C10_RelativeOnlyWithinLimits ==
  lastRequest.called /\ IsRelativeResult =>
    /\ ~currentScriptPath.isNull
    /\ config.pathStyle # "absolute"
    /\ CommonSegments >= 2
    /\ ParentHops <= MaxParents

---------------------------------------------------------------------------
(* C11 *)

\* the request of the relative-path boundary example: the document is the
\* module game.X.Y.Z.Current, the target is game.X.Sibling, no alias matches and
\* pathStyle allows relative paths
BoundaryRequest ==
  /\ lastRequest.called
  /\ currentScriptPath = Some(<<"g", "a", "m", "e", ".", "X", ".", "Y", ".", "Z", ".", "C", "u", "r", "r", "e", "n", "t">>)
  /\ lastRequest.instancePath = <<"g", "a", "m", "e", ".", "X", ".", "S", "i", "b", "l", "i", "n", "g">>
  /\ MatchingBindings = {}
  /\ config.pathStyle # "absolute"

\* C11 as claimed: the example gives script, exactly 2 .Parent accessors and
\* .Sibling.
C11_TwoParentHops ==
  BoundaryRequest => lastRequest.requirePath = <<"s", "c", "r", "i", "p", "t", ".", "P", "a", "r", "e", "n", "t", ".", "P", "a", "r", "e", "n", "t", ".", "S", "i", "b", "l", "i", "n", "g">>

\* C11, amended: with the current path game.X.Y.Z.Current (5 segments) and the
\* target game.X.Sibling the two paths share 2 leading segments, and the relative
\* strategy returns script, exactly 3 .Parent accessors and .Sibling.
C11_ThreeParentHops ==
  BoundaryRequest =>
    /\ CommonSegments = 2
    /\ ParentHops = 3
    /\ lastRequest.requirePath = <<"s", "c", "r", "i", "p", "t", ".", "P", "a", "r", "e", "n", "t", ".", "P", "a", "r", "e", "n", "t", ".", "P", "a", "r", "e", "n", "t", ".", "S", "i", "b", "l", "i", "n", "g">>

\* the boundary example was requested
C11_Witness ==
  /\ BoundaryRequest
  /\ document = <<DeclareV1, DeclareV2>>
  /\ IsRelativeResult

---------------------------------------------------------------------------
(* fuzzyMatch *)

\* fuzzyMatch has returned for a query that is not empty
QueryMatched == matchResult.called /\ matchQuery # <<>>

\* C12: for a non-empty query q and a target t, both taken in lower case, and
\* whatever minScore is: when q equals t the result is score 1.0 and tier exact;
\* otherwise when t starts with q the tier is prefix and the score is
\* 0.9 + 0.1 * len(q) / len(t), which lies in [0.9, 1.0]; otherwise when t
\* contains q the tier is substring and the score is 0.7 + 0.2 * len(q) / len(t),
\* which lies in [0.7, 0.9]; isMatch is true in each of the three cases.
C12_LiteralTiers ==
  QueryMatched =>
    LET q == ToLowerCase(matchQuery)
        t == ToLowerCase(matchTarget)
        r == matchResult.result
    IN /\ q = t => (r.score = <<1, 1>> /\ r.matchType = "exact" /\ r.isMatch)
       /\ (q # t /\ StartsWith(t, q)) =>
            /\ r.matchType = "prefix"
            /\ r.score = Rat(9 * Len(t) + Len(q), 10 * Len(t))
            /\ RatGeq(r.score, <<9, 10>>)
            /\ RatGeq(<<1, 1>>, r.score)
            /\ r.isMatch
       /\ (q # t /\ ~StartsWith(t, q) /\ IncludesString(t, q)) =>
            /\ r.matchType = "substring"
            /\ r.score = Rat(7 * Len(t) + 2 * Len(q), 10 * Len(t))
            /\ RatGeq(r.score, <<7, 10>>)
            /\ RatGeq(<<9, 10>>, r.score)
            /\ r.isMatch

\* AS is matched against aSp under the strict minScore: a prefix in lower case
\* only, scored 0.9 + 0.1 * 2 / 3
C12_Witness ==
  /\ QueryMatched
  /\ matchQuery = <<"A", "S">>
  /\ matchTarget = <<"a", "S", "p">>
  /\ matchOptions.minScore = <<1, 2>>
  /\ matchResult.result = [score |-> <<29, 30>>, isMatch |-> TRUE, matchType |-> "prefix"]

\* s with the character at position k replaced by c
Substituted(s, k, c) == [s EXCEPT ![k] = c]

\* the positions where two strings of one length differ
Differing(s, t) == {k \in 1..Len(s) : s[k] # t[k]}

\* the query is the target with one character replaced by a key adjacent to it
AdjacentSubstitution ==
  /\ QueryMatched
  /\ Len(matchQuery) = Len(matchTarget)
  /\ \E k \in 1..Len(matchTarget) :
       /\ Differing(matchQuery, matchTarget) = {k}
       /\ areKeysAdjacent(matchQuery[k], matchTarget[k])

\* C13: when the query differs from the target of the same length at one
\* position only, by a key adjacent to the target's character, its score is
\* strictly higher than the score of every query that differs from the target at
\* that position only by a key not adjacent to the target's character.
C13_AdjacentKeyScoresHigher ==
  AdjacentSubstitution =>
    \A k \in Differing(matchQuery, matchTarget) :
      \A c \in Alphabet :
        (c # matchTarget[k] /\ ~areKeysAdjacent(c, matchTarget[k])) =>
          RatLess(fuzzyMatch(Substituted(matchTarget, k, c), matchTarget, matchOptions).score,
                  matchResult.result.score)

\* the combined score of the call, before the match type is determined
RawScore ==
  LET queryLower == ToLowerCase(matchQuery)
      targetLower == ToLowerCase(matchTarget)
  IN CombinedScore(queryLower, targetLower, subsequenceMatch(queryLower, targetLower),
                   characterFrequencySimilarity(queryLower, targetLower), matchOptions)

\* no literal tier applies, allowVeryFuzzy is set and the character frequency
\* similarity is at least 0.7
SalvageCase ==
  /\ QueryMatched
  /\ ~IncludesString(ToLowerCase(matchTarget), ToLowerCase(matchQuery))
  /\ matchOptions.allowVeryFuzzy
  /\ RatGeq(characterFrequencySimilarity(matchQuery, matchTarget), <<7, 10>>)

\* C14: whatever minScore is, when allowVeryFuzzy is set, no literal tier applies
\* and the character frequency similarity of query and target is at least 0.7,
\* the result has isMatch true and a tier other than none, and the tier is fuzzy
\* whenever the combined score is below minScore.
C14_VeryFuzzySalvage ==
  SalvageCase =>
    /\ matchResult.result.isMatch
    /\ matchResult.result.matchType # "none"
    /\ RatLess(RawScore, matchOptions.minScore) => matchResult.result.matchType = "fuzzy"

\* t with the characters at positions k and k + 1 exchanged
Swapped(t, k) == [t EXCEPT ![k] = t[k + 1], ![k + 1] = t[k]]

\* the query is, in lower case, the target with two adjacent different
\* characters exchanged, and the options are the defaults
AdjacentSwap ==
  /\ QueryMatched
  /\ matchOptions = defaultOptions
  /\ \E k \in 1..(Len(matchTarget) - 1) :
       /\ matchTarget[k] # matchTarget[k + 1]
       /\ ToLowerCase(matchQuery) = ToLowerCase(Swapped(matchTarget, k))

\* C15: under the default options a query that is the target, of length 2 or
\* more, with one pair of adjacent different characters exchanged is a match:
\* isMatch is true.  rpomptclass matched against PromptClass is such a query.
C15_AdjacentSwapMatches == AdjacentSwap => matchResult.result.isMatch

\* rpomptclass is matched against PromptClass: no literal tier, no subsequence
\* match, score 937/1375
C15_Witness ==
  /\ AdjacentSwap
  /\ matchQuery = <<"r", "p", "o", "m", "p", "t", "c", "l", "a", "s", "s">>
  /\ matchTarget = <<"P", "r", "o", "m", "p", "t", "C", "l", "a", "s", "s">>
  /\ matchResult.result = [score |-> <<937, 1375>>, isMatch |-> TRUE, matchType |-> "fuzzy"]

---------------------------------------------------------------------------
(* rankMatches *)

\* where the item stands in the items rankMatches was called with
ItemIndex(item) == CHOOSE k \in 1..Len(rankItems) : rankItems[k] = item

\* C16: the results of rankMatches are in non-increasing order of score, and two
\* results of equal score stand in the order their items have in the input.
C16_SortedAndStable ==
  ranked.called =>
    \A i, j \in 1..Len(ranked.results) :
      i < j =>
        /\ RatGeq(ranked.results[i].score, ranked.results[j].score)
        /\ ranked.results[i].score = ranked.results[j].score =>
             ItemIndex(ranked.results[i].item) < ItemIndex(ranked.results[j].item)

\* asp is ranked among init, asp and Asp in this order: asp and Asp both score
\* 1.0 and keep their order, in front of init, which stood first
C16_Witness ==
  /\ ranked.called
  /\ matchQuery = <<"a", "s", "p">>
  /\ Len(rankItems) = 3
  /\ Len(ranked.results) = 3
  /\ rankItems[1].name = <<"i", "n", "i", "t">>
  /\ ranked.results[1].item = rankItems[2]
  /\ ranked.results[2].item = rankItems[3]
  /\ ranked.results[3].item = rankItems[1]
  /\ ranked.results[1].score = ranked.results[2].score
  /\ RatLess(ranked.results[3].score, ranked.results[2].score)

\* what fuzzyMatch returns for each search text of the item
TextResults(item) ==
  [k \in 1..Len(getSearchText(item)) |-> fuzzyMatch(matchQuery, getSearchText(item)[k], matchOptions)]

\* the first of the results that no other result outscores
BestText(results) ==
  CHOOSE k \in DOMAIN results :
    /\ \A j \in DOMAIN results : RatGeq(results[k].score, results[j].score)
    /\ \A j \in 1..(k - 1) : RatLess(results[j].score, results[k].score)

\* the result for the item's highest-scoring search text
Kept(item) == Const(TextResults(item), LAMBDA results : results[BestText(results)])

\* the positions of the item in the results
Occurrences(item) == {i \in 1..Len(ranked.results) : ranked.results[i].item = item}

\* C17: for each candidate every search text is matched and the score and match
\* type of the highest-scoring text are kept; the candidate is in the results
\* exactly when the kept match type is not none, and then it is there once, with
\* the kept score and match type; nothing else is in the results.
C17_BestTextDecides ==
  ranked.called =>
    /\ \A i \in 1..Len(ranked.results) : \E k \in 1..Len(rankItems) : ranked.results[i].item = rankItems[k]
    /\ \A item \in {rankItems[k] : k \in 1..Len(rankItems)} :
         Const(Kept(item), LAMBDA kept :
           IF kept.matchType = "none"
           THEN Occurrences(item) = {}
           ELSE /\ Cardinality(Occurrences(item)) = 1
                /\ \A i \in Occurrences(item) :
                     /\ ranked.results[i].score = kept.score
                     /\ ranked.results[i].matchType = kept.matchType)

\* sp is ranked among zzz and init under the normal minScore: zzz is dropped,
\* both of its texts having the match type none, and init is kept for its
\* second text, the relative path
C17_Witness ==
  /\ ranked.called
  /\ matchQuery = <<"s", "p">>
  /\ matchOptions.minScore = <<7, 20>>
  /\ Len(rankItems) = 2
  /\ rankItems[1].name = <<"z", "z", "z">>
  /\ rankItems[2].name = <<"i", "n", "i", "t">>
  /\ BestText(TextResults(rankItems[2])) = 2
  /\ TextResults(rankItems[2])[1].matchType = "none"
  /\ Len(ranked.results) = 1
  /\ ranked.results[1].item = rankItems[2]
  /\ ranked.results[1].matchType = "substring"

---------------------------------------------------------------------------
(* C18 *)

\* a step in which rebuildIndex is called on the current indexer: the reindex
\* command, or a sourcemap or project handler that got past isReinitializing
RebuildIndexCall ==
  \/ ReindexCommand
  \/ /\ ~isReinitializing
     /\ HandleSourcemapChange \/ HandleRojoProjectChange

---------------------------------------------------------------------------
(* C19 *)

\* no handler is due and no rebuild or reinitialization is in progress
Quiescent == events = <<>> /\ rebuilds = <<>> /\ reinitPc = "idle"

\* the instance path of a file, computed from what sourcemap.json and
\* default.project.json hold on disk now
CurrentInstancePath(fsPath) ==
  ComputeInstancePath(Loaded(diskSourcemap, NotLoaded), Loaded(diskProject, NotLoaded), fsPath)

\* every indexed module carries the instance path of the latest file contents
InstancePathsCurrent ==
  \A i \in DOMAIN modules : modules[i].instancePath = CurrentInstancePath(modules[i].fsPath)

\* C19: once every raised event of sourcemap.json and default.project.json
\* has been handled and no rebuild or reinitialization is in progress, the
\* file has been reloaded and the index rebuilt: every indexed instance path
\* is the one computed from the latest contents of the two files, also when
\* the event arrived during a workspace folder reinitialization or an index
\* rebuild
C19_ProjectFileEventsReachTheIndex == Quiescent => InstancePathsCurrent

---------------------------------------------------------------------------
(* C20 *)

\* the fsPath values in modules
IndexedFiles == {modules[i].fsPath : i \in DOMAIN modules}

\* the existing files a rebuildIndex would index: what its two findFiles calls
\* return, less what indexFile skips
WouldIndex ==
  {f \in FindLuauFiles(diskFiles) \cup FindWallyPackageFiles(diskFiles) : ~Skipped(f)}

\* C20: the module index follows the files on disk: whenever every watcher
\* event has been handled and no rebuild is in progress, the set of fsPath
\* values in modules is the set of existing files rebuildIndex would index
C20_IndexFollowsDisk == Quiescent => IndexedFiles = WouldIndex

---------------------------------------------------------------------------
(* C21 *)

\* the bindings extractDefinedVariables returned for the request
Bindings == {lastRequest.definedVariables[i] : i \in DOMAIN lastRequest.definedVariables}

\* C21: every binding extractDefinedVariables returns has a logical path that
\* begins with the root token game, and its depth equals the number of segments
\* of that logical path, the root included, whether a segment is in dot form or
\* in bracket-quoted form.
C21_DepthCountsSegments ==
  lastRequest.called =>
    \A binding \in Bindings :
      /\ StartsWith(binding.instancePath, Game)
      /\ binding.depth = Len(LogicalSegments(binding.instancePath))

---------------------------------------------------------------------------
(* C22 *)

\* the binding findDeepestMatchingVariable stops at: the first of the list that
\* matches
SelectedBinding ==
  lastRequest.definedVariables[
    CHOOSE i \in MatchingBindings : \A j \in MatchingBindings : i <= j]

\* the returned expression with the alias name replaced by the logical path of
\* the selected binding
AliasReplaced ==
  SelectedBinding.instancePath
    \o Substring(lastRequest.requirePath, Len(SelectedBinding.varName))

\* C22: the alias strategy selects a binding only when its logical path is a
\* prefix of the target path that ends at a segment boundary (the end, '.' or
\* '['), so replacing the alias name in the returned expression by the binding's
\* logical path reproduces the target path character for character.
C22_AliasReplacedIsTarget ==
  (lastRequest.called /\ MatchingBindings # {}) =>
    /\ StartsWith(lastRequest.requirePath, SelectedBinding.varName)
    /\ StartsWith(lastRequest.instancePath, SelectedBinding.instancePath)
    /\ AliasReplaced = lastRequest.instancePath

---------------------------------------------------------------------------
(* C23 *)

RECURSIVE LeadingParents(_, _)
\* the number of .Parent accessors the list of accessors begins with, from
\* index i
LeadingParents(accessors, i) ==
  IF i <= Len(accessors) /\ accessors[i] = <<".", "P", "a", "r", "e", "n", "t">>
  THEN 1 + LeadingParents(accessors, i + 1)
  ELSE 0

\* the segment list a relative expression denotes: script is the segment list
\* of the current script, each .Parent drops the last segment and each accessor
\* behind them appends one segment
Interpreted(expression, scriptSegments) ==
  LET accessors == AccessorSegments(expression, Len(<<"s", "c", "r", "i", "p", "t">>) + 1)
      hops == LeadingParents(accessors, 1)
  IN SubSeq(scriptSegments, 1, Len(scriptSegments) - hops)
       \o SubSeq(accessors, hops + 1, Len(accessors))

\* C23: whenever getRelativePath returns an expression, that expression read
\* against the current script's path (script is the segment list of the current
\* path, each .Parent drops the last segment, each accessor behind them appends
\* one segment) gives exactly the segment list of the target, bracket-quoted
\* segments included.
C23_RelativeDenotesTarget ==
  (lastRequest.called /\ ~RelativeOutcome.isNull) =>
    Interpreted(RelativeOutcome.value, LogicalSegments(currentScriptPath.value))
      = LogicalSegments(lastRequest.instancePath)

---------------------------------------------------------------------------
(* C24 *)

RECURSIVE ChainInSourceOrder(_, _)
\* the accessors of a chain from index i on, in the order they are written: a
\* dot accessor as it stands, a bracket string literal as .name when the name
\* is a valid identifier and as ["name"] otherwise
ChainInSourceOrder(chain, i) ==
  IF AccessorEnd(chain, i) = 0 THEN <<>>
  ELSE (IF chain[i] = "."
        THEN SubSeq(chain, i, AccessorEnd(chain, i))
        ELSE BracketAccessor(SubSeq(chain, i + 2, AccessorEnd(chain, i) - 2)))
         \o ChainInSourceOrder(chain, AccessorEnd(chain, i) + 1)

\* the lines of the document of the form local N = B<chain> whose B is bound by
\* a line above
ChainedLines ==
  {i \in DOMAIN document :
     /\ PathPart(document[i]) # <<>>
     /\ \E b \in Bindings : b.varName = document[i].baseVarName /\ b.lineIndex < i - 1}

\* C24: for a declaration local N = B<chain> whose B is an alias that is
\* already bound, the binding for N has the logical path of B followed by the
\* segments of the chain in source order: a dot segment as written, a bracket
\* string-literal segment as .name when the name is a valid identifier and as
\* ["name"] otherwise.
C24_ChainInSourceOrder ==
  lastRequest.called =>
    \A i \in ChainedLines :
      \E n, b \in Bindings :
        /\ n.varName = document[i].varName /\ n.lineIndex = i - 1
        /\ b.varName = document[i].baseVarName /\ b.lineIndex < i - 1
        /\ n.instancePath = b.instancePath \o ChainInSourceOrder(PathPart(document[i]), 1)

---------------------------------------------------------------------------
(* C25 *)

\* the orders the lines of the document can be written in
LineOrders ==
  {order \in [DOMAIN document -> DOMAIN document] :
     \A i, j \in DOMAIN document : order[i] = order[j] => i = j}

\* the document with its lines in another order
Permuted(order) == [i \in DOMAIN document |-> document[order[i]]]

\* the bindings of a list as (aliasName, logicalPath, depth)
BindingSet(variables) ==
  {<<variables[i].varName, variables[i].instancePath, variables[i].depth>> : i \in DOMAIN variables}

\* C25: alias extraction does not depend on the order of the lines: with the
\* declaration lines of the document permuted, the set of (aliasName,
\* logicalPath, depth) bindings is the same, aliases chained from chained
\* aliases included.
C25_OrderIndependent ==
  lastRequest.called =>
    \A order \in LineOrders :
      BindingSet(ExtractDefinedVariables(Permuted(order))) = BindingSet(lastRequest.definedVariables)

---------------------------------------------------------------------------
(* C26 *)

RECURSIVE PreOrder(_, _)
RECURSIVE PreOrderChildren(_, _)

\* the nodes of a project tree in depth-first pre-order, each with its $path
\* and its accumulated name path: a node before its children, the children in
\* key order
PreOrder(node, names) ==
  <<[path |-> node.path, names |-> names]>> \o PreOrderChildren(node.children, names)

PreOrderChildren(children, names) ==
  IF children = <<>> THEN <<>>
  ELSE (IF StartsWith(Head(children).key, <<"$">>) \/ ~Head(children).isObject THEN <<>>
        ELSE PreOrder(Head(children).node, Append(names, Head(children).key)))
         \o PreOrderChildren(Tail(children), names)

\* the $path is the relative path itself or an ancestor directory of it, the
\* shared prefix ending at a '/'
IsOrContains(nodePath, relativePath) ==
  /\ nodePath.kind = "string"
  /\ nodePath.value # <<>>
  /\ StartsWith(relativePath, nodePath.value)
  /\ \/ Len(relativePath) = Len(nodePath.value)
     \/ relativePath[Len(nodePath.value) + 1] = Slash

\* the segment is an index file: init, an optional role and a source extension
IsIndexSegment(segment) ==
  ToLowerCase(StripSuffixCI(StripSuffixCI(segment, RoleSourceSuffixes), SourceSuffixes)) = InitName

RECURSIVE IndexCollapsed(_)
\* the segments without those of index files
IndexCollapsed(segments) ==
  IF segments = <<>> THEN <<>>
  ELSE IF IsIndexSegment(Head(segments)) THEN IndexCollapsed(Tail(segments))
  ELSE <<StripSuffixCI(Head(segments), RoleLuauSuffixes)>> \o IndexCollapsed(Tail(segments))

\* the path of the last call relative to the workspace folder
RelativeToWorkspace == PathRelative(WS, lastCall.path)

\* the nodes of the loaded project tree that match the path of the last call,
\* as indices of the pre-order
MatchingNodes ==
  LET nodes == PreOrder(rojoProjectCache.tree, <<>>) IN
  {i \in DOMAIN nodes : IsOrContains(nodes[i].path, RelativeToWorkspace)}

\* the segments the claim derives from the first matching node
FromFirstNode ==
  LET nodes == PreOrder(rojoProjectCache.tree, <<>>)
      first == CHOOSE i \in MatchingNodes : \A j \in MatchingNodes : i <= j
      remainder == Substring(RelativeToWorkspace, Len(nodes[first].path.value) + 1)
  IN nodes[first].names
       \o IndexCollapsed(IF remainder = <<>> THEN <<>> ELSE Split(remainder, Slash))

\* the project-tree tier searched a tree for a file of the workspace folder
TreeSearched ==
  /\ lastCall.called
  /\ StartsWith(lastCall.path, WS \o <<Slash>>)
  /\ rojoProjectCache.kind = "project"
  /\ rojoProjectCache.hasTree

\* C26: the project-tree tier returns the path derived from the first node, in
\* depth-first pre-order (a node's own $path before its children, children in
\* key order), whose $path equals the file's workspace-relative path or is an
\* ancestor directory of it at a '/' boundary; a $path that shares only part of
\* a segment never matches.  The result is that node's accumulated name path
\* followed by the remainder segments with the index files collapsed.
C26_FirstNodeInPreOrder ==
  TreeSearched =>
    IF MatchingNodes # {}
    THEN RojoTier = Segs(FromFirstNode)
    ELSE ~Matched(RojoTier)

---------------------------------------------------------------------------
(* C27 *)

\* C27: in every reachable state of the ModuleIndexer, under every interleaving
\* of rebuildIndex with the watcher's create, change and delete events, those
\* delivered while rebuildIndex awaits the file scan included, modules holds at
\* most one entry per fsPath.
C27_OneEntryPerFile ==
  \A i, j \in DOMAIN modules : modules[i].fsPath = modules[j].fsPath => i = j

---------------------------------------------------------------------------
(* C28 *)

\* C28: once a change of the workspace folders has been handled (a new
\* PathResolver and a new ModuleIndexer created and initialized, the old indexer
\* disposed), every later completion request is answered from the modules of
\* the new ModuleIndexer and never from those of the disposed one.
C28_AnsweredFromNewIndexer ==
  (served.called /\ served.afterFolderChange) =>
    /\ ~served.fromDisposed
    /\ served.fromCurrentModules

---------------------------------------------------------------------------
(* C29 *)

\* C29: for every query, target and options, isMatch is true exactly when
\* matchType is not none, so that rankMatches, which filters on matchType, keeps
\* exactly the candidates that have a field with isMatch true.
C29_IsMatchIffTyped ==
  matchResult.called =>
    (matchResult.result.isMatch <=> matchResult.result.matchType # "none")

---------------------------------------------------------------------------
(* C30 *)

\* C30: the score 1.0 is reserved for the exact tier: for a non-empty query and
\* a non-empty target, a result whose matchType is prefix, substring,
\* subsequence, fuzzy or none has a score strictly below 1.0, so that in
\* rankMatches a candidate equal to the query is never tied with or preceded by
\* one that is not.
C30_OneOnlyWhenExact ==
  (QueryMatched /\ matchTarget # <<>> /\ matchResult.result.matchType # "exact") =>
    RatLess(matchResult.result.score, <<1, 1>>)

====
